---- MODULE Spec2Model ----
(***************************************************************************)
(* Verification model of the security substrate of plannet:                *)
(*   - security/ratelimit.go : RateLimiter, HTTPRateLimiter and            *)
(*                             rateLimitedTransport                        *)
(*   - security/token.go and its config-embedded twin : TokenStorage       *)
(*   - security path sanitizer : SanitizeFilePath and the Safe* wrappers   *)
(* Each component has its own specification (SpecRL, SpecVault, SpecPath)  *)
(* over the shared variable list; the variables of the other components    *)
(* stay at their initial value.                                            *)
(***************************************************************************)
EXTENDS Integers, Sequences, FiniteSets, TLC

VARIABLES
    \* ---- rate limiter (security/ratelimit.go) ----
    limit,      \* RateLimiter.limit
    window,     \* RateLimiter.window
    requests,   \* RateLimiter.requests : map key -> list of timestamps
    mu,         \* RateLimiter.mu : the goroutine holding the mutex, or NoProc
    clock,      \* time.Now()
    pc,         \* position of every goroutine
    loc,        \* locals of the Allow / RoundTrip call of every goroutine
    origClient, \* the *http.Client handed to WrapHTTPClient
    wrapped,    \* map key -> client returned by WrapHTTPClient
    rt,         \* history: outcome of the last RoundTrip that returned
    log,        \* history: completed Allow calls since the last Reset
    admitted,   \* history: timestamps of all admitted calls, per key
    ncalls,     \* history: number of Allow calls started
    wasReset,   \* history: whether Reset was ever called
    client0,    \* history: the value of origClient at the start
    \* ---- token storage (security/token.go and its twin) ----
    layout,     \* which of the two implementations is in use
    fs,         \* contents of the files in the home directory
    vpc,        \* position of every goroutine in its TokenStorage call
    vloc,       \* locals of the StoreToken call of every goroutine
    lastStored, \* history: token of the last StoreToken that returned nil
    lastGet,    \* history: the GetToken call that just returned, if any
    nstores,    \* history: number of StoreToken calls started
    ntampers,   \* history: number of bit flips by others
    \* ---- path sanitizer (security package and cmd/status.go) ----
    impl,       \* which of the two copies of SanitizeFilePath is in use
    tree,       \* the file tree: absolute path -> directory, file or link
    lastOp,     \* history: the file operation that just returned, if any
    nops,       \* history: number of changes made to the file tree
    \* ---- credentials in the system keyring (package auth) ----
    keyring,    \* the system keyring: username -> stored JSON, or absent
    lastCred,   \* history: the credential operation that just returned
    \* ---- the two token storages side by side ----
    lastTwin,   \* history: outcomes of the last call made on both storages
    \* ---- configuration file (config/config.go) ----
    globalConfig, \* config.globalConfig : the cached configuration, or nil
    configPath, \* config.configPath
    lastCfg,    \* history: the config operation that just returned, if any
    \* ---- interactive LLM session (cmd, runLLMInteractive) ----
    session     \* history: the requests the session forwarded, the last outcome

rlVars == <<limit, window, requests, mu, clock, pc, loc, origClient, wrapped,
            rt, log, admitted, ncalls, wasReset, client0>>

vaultVars == <<layout, fs, vpc, vloc, lastStored, lastGet, nstores, ntampers>>

pathVars == <<impl, tree, lastOp, nops>>

credVars == <<keyring, lastCred>>

twinVars == <<lastTwin>>

cfgVars == <<globalConfig, configPath, lastCfg>>

llmVars == <<session>>

auxVars == <<credVars, twinVars, cfgVars, llmVars>>

vars == <<rlVars, vaultVars, pathVars, auxVars>>

----------------------------------------------------------------------------
(* Bounds *)

MaxLimit == 1
MaxWindow == 1
MaxTime == 2
MaxCalls == 3
MaxRoundTrips == 2
MaxStores == 2
MaxTampers == 1
MaxOps == 2

Keys == {"a", "b"}
Procs == {"g1", "g2"}
NoProc == "none"

----------------------------------------------------------------------------
(* Small helpers *)

Min(S) == CHOOSE x \in S : \A y \in S : x <= y
Max(S) == CHOOSE x \in S : \A y \in S : y <= x

\* the elements of s that satisfy Test, in order
RECURSIVE SelectSeqIdx(_, _)
SelectSeqIdx(s, keep) ==
    IF s = <<>> THEN <<>>
    ELSE LET n == Len(s)
             front == SelectSeqIdx(SubSeq(s, 1, n - 1), keep)
         IN IF n \in keep THEN Append(front, s[n]) ELSE front

----------------------------------------------------------------------------
(* RateLimiter *)

\* sync.Mutex.Lock proceeds only when nobody holds the mutex
MuFreeBroken(m) == TRUE
MuFree(m) == m = NoProc

\* time.Time.After
After(t, u) == t > u

\* the filter loop of Allow: the entries strictly newer than windowStart
ValidRequestsNoPrune(reqs, windowStart) == reqs
ValidRequests(reqs, windowStart) ==
    SelectSeqIdx(reqs, {i \in DOMAIN reqs : After(reqs[i], windowStart)})

\* the body of Allow between Lock and Unlock, for the entry of the key read
\* from the map (present, reqs) and the instant now: the value returned,
\* whether the map entry is written, and the list written
AllowBodyRecordsRejected(present, reqs, now, lim, win) ==
    IF ~present
    THEN [ok |-> TRUE, write |-> TRUE, list |-> <<now>>]
    ELSE LET validRequests == ValidRequests(reqs, now - win)
         IN IF Len(validRequests) >= lim
            THEN [ok |-> FALSE, write |-> TRUE,
                  list |-> Append(validRequests, now)]
            ELSE [ok |-> TRUE, write |-> TRUE,
                  list |-> Append(validRequests, now)]
AllowBodyOffByOne(present, reqs, now, lim, win) ==
    IF ~present
    THEN [ok |-> TRUE, write |-> TRUE, list |-> <<now>>]
    ELSE LET validRequests == ValidRequests(reqs, now - win)
         IN IF Len(validRequests) > lim
            THEN [ok |-> FALSE, write |-> FALSE, list |-> reqs]
            ELSE [ok |-> TRUE, write |-> TRUE,
                  list |-> Append(validRequests, now)]
AllowBody(present, reqs, now, lim, win) ==
    IF ~present
    THEN [ok |-> TRUE, write |-> TRUE, list |-> <<now>>]
    ELSE LET validRequests == ValidRequests(reqs, now - win)
         IN IF Len(validRequests) >= lim
            THEN [ok |-> FALSE, write |-> FALSE, list |-> reqs]
            ELSE [ok |-> TRUE, write |-> TRUE,
                  list |-> Append(validRequests, now)]

\* rl.requests[key] = list
StoreRequestsAllKeys(m, key, list) == [k \in DOMAIN m \cup {key} |-> list]
StoreRequests(m, key, list) == (key :> list) @@ m

----------------------------------------------------------------------------
(* HTTPRateLimiter and rateLimitedTransport *)

NilValue == "nil"
NoError == [kind |-> NilValue, key |-> NilValue]
RateLimitExceeded(key) == [kind |-> "rate limit exceeded for", key |-> key]

\* the http.Client values handed to WrapHTTPClient
Clients ==
    { [Transport |-> NilValue, Timeout |-> 0,
       CheckRedirect |-> NilValue, Jar |-> NilValue],
      [Transport |-> "customTransport", Timeout |-> 30,
       CheckRedirect |-> "redirectPolicy", Jar |-> "cookieJar"] }

\* what the underlying transport can answer
NetResults ==
    { [resp |-> "response", err |-> NoError],
      [resp |-> NilValue, err |-> [kind |-> "transport error",
                                   key |-> NilValue]] }

\* WrapHTTPClient: the client returned, and the original client afterwards
WrapHTTPClientDropJar(client, key) ==
    LET transport == [base |-> client.Transport, key |-> key]
    IN [client |-> client,
        wrapped |-> [Transport |-> transport, Timeout |-> client.Timeout,
                     CheckRedirect |-> client.CheckRedirect,
                     Jar |-> NilValue]]
WrapHTTPClient(client, key) ==
    LET transport == [base |-> client.Transport, key |-> key]
    IN [client |-> client,
        wrapped |-> [Transport |-> transport, Timeout |-> client.Timeout,
                     CheckRedirect |-> client.CheckRedirect,
                     Jar |-> client.Jar]]

\* RoundTrip after the call of Allow returned allowed: the transport the
\* request is forwarded to (if any) and the values returned; netRes is what
\* that transport answers
RoundTripAlwaysForward(t, allowed, netRes) ==
    LET base == IF t.base = NilValue THEN "DefaultTransport" ELSE t.base
    IN [forwards |-> 1, target |-> base,
        resp |-> IF allowed THEN netRes.resp ELSE NilValue,
        err |-> IF allowed THEN netRes.err
                ELSE RateLimitExceeded(t.key)]
RoundTrip(t, allowed, netRes) ==
    IF ~allowed
    THEN [forwards |-> 0, target |-> NilValue, resp |-> NilValue,
          err |-> RateLimitExceeded(t.key)]
    ELSE LET base == IF t.base = NilValue THEN "DefaultTransport" ELSE t.base
         IN [forwards |-> 1, target |-> base,
             resp |-> netRes.resp, err |-> netRes.err]

----------------------------------------------------------------------------
(* State machine of the rate limiter and the wrapped clients *)

NoLoc == [key |-> "a", via |-> "direct", now |-> 0, present |-> FALSE,
          reqs |-> <<>>, ok |-> FALSE, allowCalls |-> 0]
NoRT == [done |-> FALSE, via |-> "a", key |-> "a", allowed |-> FALSE,
         allowCalls |-> 0, forwards |-> 0, target |-> NilValue,
         netRes |-> [resp |-> NilValue, err |-> NoError],
         resp |-> NilValue, err |-> NoError]

\* no credential manager in use
CredUnused ==
    /\ keyring = << >>
    /\ lastCred = [op |-> "none", username |-> "", err |-> "nil", token |-> ""]

\* the two token storages are not run side by side
TwinUnused ==
    lastTwin = [op |-> "none", name |-> "", a |-> << >>, b |-> << >>]

\* no configuration in use
NilConfig == [set |-> FALSE, Editor |-> "", Headers |-> "nil"]
NoCfg == [op |-> "none", config |-> NilConfig, err |-> "nil"]
ConfigUnused ==
    /\ globalConfig = NilConfig
    /\ configPath = << >>
    /\ lastCfg = NoCfg

\* no LLM session in progress
NoSession == [sent |-> << >>, last |-> "none", nprompts |-> 0]
LLMUnused == session = NoSession

AuxUnused ==
    /\ CredUnused
    /\ TwinUnused
    /\ ConfigUnused
    /\ LLMUnused

\* no file operation in use
PathUnused ==
    /\ impl = "security"
    /\ tree = << >>
    /\ lastOp = [op |-> "none", rel |-> << >>, err |-> "nil", path |-> << >>,
                 out |-> << >>, at |-> << >>, data |-> "",
                 perm |-> 0]
    /\ nops = 0

\* no token storage in use
VaultUnused ==
    /\ layout = "tokenfile"
    /\ fs = [f \in {".plannet_key", ".plannet_tokens", ".plannetrc"} |->
               [kind |-> "absent", key |-> "", len |-> 0, obj |-> << >>]]
    /\ vpc = [p \in Procs |-> "start"]
    /\ vloc = [p \in Procs |->
                 [name |-> "jira", token |-> "<none>",
                  encoded |-> [t |-> "plain", s |-> "",
                               blob |-> [key |-> [kind |-> "absent",
                                                  key |-> "", len |-> 0,
                                                  obj |-> << >>],
                                         nonce |-> "", pt |-> "<none>",
                                         flips |-> {}]],
                  tokens |-> << >>]]
    /\ lastStored = [n \in {"jira", "gh"} |-> "<none>"]
    /\ lastGet = [done |-> FALSE, name |-> "jira", flips |-> {},
                  err |-> "nil", token |-> ""]
    /\ nstores = 0
    /\ ntampers = 0

\* the state shared by both specifications right after construction
InitLimiter ==
    /\ limit \in 0..MaxLimit
    /\ window \in 1..MaxWindow
    /\ requests = << >>
    /\ mu = NoProc
    /\ clock = 0
    /\ pc = [p \in Procs |-> "idle"]
    /\ loc = [p \in Procs |-> NoLoc]
    /\ wrapped = << >>
    /\ rt = NoRT
    /\ log = << >>
    /\ admitted = [k \in Keys |-> << >>]
    /\ ncalls = 0
    /\ wasReset = FALSE
    /\ client0 = origClient

\* NewRateLimiter(limit, window): a limiter used directly
InitRL ==
    /\ VaultUnused
    /\ PathUnused
    /\ AuxUnused
    /\ origClient = [Transport |-> NilValue, Timeout |-> 0,
                     CheckRedirect |-> NilValue, Jar |-> NilValue]
    /\ InitLimiter

\* NewHTTPRateLimiter(limit, window) and a client to wrap
InitHTTP ==
    /\ VaultUnused
    /\ PathUnused
    /\ AuxUnused
    /\ origClient \in Clients
    /\ InitLimiter

\* time passes
Tick ==
    /\ clock < MaxTime
    /\ clock' = clock + 1
    /\ UNCHANGED <<limit, window, requests, mu, pc, loc, origClient, wrapped,
                   rt, log, admitted, ncalls, wasReset, client0, vaultVars,
                   pathVars, auxVars>>

\* a goroutine calls rl.Allow(k) directly
AllowCall(p, k) ==
    /\ pc[p] = "idle"
    /\ ncalls < MaxCalls
    /\ pc' = [pc EXCEPT ![p] = "allow_wait"]
    /\ loc' = [loc EXCEPT ![p] = [NoLoc EXCEPT !.key = k]]
    /\ ncalls' = ncalls + 1
    /\ UNCHANGED <<limit, window, requests, mu, clock, origClient, wrapped,
                   rt, log, admitted, wasReset, client0, vaultVars,
                   pathVars, auxVars>>

\* rl.mu.Lock(); now := time.Now(); requests, ok := rl.requests[key]
AllowLock(p) ==
    /\ pc[p] = "allow_wait"
    /\ MuFree(mu)
    /\ mu' = p
    /\ LET k == loc[p].key
       IN loc' = [loc EXCEPT ![p].now = clock,
                             ![p].present = (k \in DOMAIN requests),
                             ![p].reqs = IF k \in DOMAIN requests
                                         THEN requests[k] ELSE << >>]
    /\ pc' = [pc EXCEPT ![p] = "allow_locked"]
    /\ UNCHANGED <<limit, window, requests, clock, origClient, wrapped,
                   rt, log, admitted, ncalls, wasReset, client0, vaultVars,
                   pathVars, auxVars>>

\* the rest of Allow: filter, compare, append, return (and the deferred
\* Unlock)
AllowDecide(p) ==
    /\ pc[p] = "allow_locked"
    /\ LET l == loc[p]
           r == AllowBody(l.present, l.reqs, l.now, limit, window)
       IN /\ requests' = IF r.write
                         THEN StoreRequests(requests, l.key, r.list)
                         ELSE requests
          /\ loc' = [loc EXCEPT ![p] =
                        IF l.via = "direct" THEN NoLoc
                        ELSE [l EXCEPT !.ok = r.ok,
                                       !.allowCalls = l.allowCalls + 1,
                                       !.reqs = << >>, !.present = FALSE]]
          /\ log' = Append(log,
                      [key |-> l.key, now |-> l.now, ok |-> r.ok,
                       overlap |-> \E q \in Procs \ {p} :
                                      /\ pc[q] = "allow_wait"
                                      /\ loc[q].key = l.key])
          /\ admitted' = IF r.ok
                         THEN [admitted EXCEPT ![l.key] = Append(@, l.now)]
                         ELSE admitted
          /\ pc' = [pc EXCEPT ![p] = IF l.via = "direct" THEN "idle"
                                     ELSE "rt_allowed"]
    /\ mu' = NoProc
    /\ UNCHANGED <<limit, window, clock, origClient, wrapped, rt, ncalls,
                   wasReset, client0, vaultVars,
                   pathVars, auxVars>>

\* rl.Reset()
Reset(p) ==
    /\ pc[p] = "idle"
    /\ MuFree(mu)
    /\ requests' = << >>
    /\ log' = << >>
    /\ wasReset' = TRUE
    /\ UNCHANGED <<limit, window, mu, clock, pc, loc, origClient, wrapped,
                   rt, admitted, ncalls, client0, vaultVars,
                   pathVars, auxVars>>

\* rl.WrapHTTPClient(client, k)
Wrap(k) ==
    /\ k \notin DOMAIN wrapped
    /\ LET w == WrapHTTPClient(origClient, k)
       IN /\ wrapped' = (k :> w.wrapped) @@ wrapped
          /\ origClient' = w.client
    /\ UNCHANGED <<limit, window, requests, mu, clock, pc, loc, rt, log,
                   admitted, ncalls, wasReset, client0, vaultVars,
                   pathVars, auxVars>>

\* a goroutine sends a request through the client wrapped for k: RoundTrip
\* starts and calls t.limiter.Allow(t.key)
RoundTripCall(p, k) ==
    /\ pc[p] = "idle"
    /\ ncalls < MaxRoundTrips
    /\ k \in DOMAIN wrapped
    /\ pc' = [pc EXCEPT ![p] = "allow_wait"]
    /\ loc' = [loc EXCEPT ![p] = [NoLoc EXCEPT
                                    !.key = wrapped[k].Transport.key,
                                    !.via = k]]
    /\ ncalls' = ncalls + 1
    /\ UNCHANGED <<limit, window, requests, mu, clock, origClient, wrapped,
                   rt, log, admitted, wasReset, client0, vaultVars,
                   pathVars, auxVars>>

\* the rest of RoundTrip once Allow has returned
RoundTripReturn(p, netRes) ==
    /\ pc[p] = "rt_allowed"
    /\ LET t == wrapped[loc[p].via].Transport
           r == RoundTrip(t, loc[p].ok, netRes)
       IN rt' = [done |-> TRUE, via |-> loc[p].via, key |-> t.key,
                 allowed |-> loc[p].ok, allowCalls |-> loc[p].allowCalls,
                 forwards |-> r.forwards, target |-> r.target,
                 netRes |-> IF r.forwards > 0 THEN netRes
                            ELSE [resp |-> NilValue, err |-> NoError],
                 resp |-> r.resp, err |-> r.err]
    /\ pc' = [pc EXCEPT ![p] = "idle"]
    /\ loc' = [loc EXCEPT ![p] = NoLoc]
    /\ UNCHANGED <<limit, window, requests, mu, clock, origClient,
                   wrapped, log, admitted, ncalls, wasReset, client0, vaultVars,
                   pathVars, auxVars>>

\* a RateLimiter shared by goroutines that call Allow and Reset
NextRL ==
    \/ Tick
    \/ \E p \in Procs, k \in Keys : AllowCall(p, k)
    \/ \E p \in Procs : AllowLock(p)
    \/ \E p \in Procs : AllowDecide(p)
    \/ \E p \in Procs : Reset(p)

SpecRL == InitRL /\ [][NextRL]_vars

\* an HTTPRateLimiter: its limiter is private, so it is reached only through
\* the RoundTrip of the clients it wrapped
NextHTTP ==
    \/ Tick
    \/ \E k \in Keys : Wrap(k)
    \/ \E p \in Procs, k \in Keys : RoundTripCall(p, k)
    \/ \E p \in Procs : AllowLock(p)
    \/ \E p \in Procs : AllowDecide(p)
    \/ \E p \in Procs, netRes \in NetResults : RoundTripReturn(p, netRes)

SpecHTTP == InitHTTP /\ [][NextHTTP]_vars

----------------------------------------------------------------------------
(* TokenStorage: files, AES-GCM and base64 *)

Names == {"jira", "gh"}
Secrets == {"tok-abc123", "s3cr3t"}
\* what rand.Reader can deliver as key bytes and as nonce
KeyBytes == {"K1", "K2"}
Nonces == {"N1"}
NoSecret == "<none>"

\* the two implementations: security/token.go keeps the key in
\* ~/.plannet_key and the records in ~/.plannet_tokens; its twin keeps both
\* the key and the records in ~/.plannetrc
Layouts == {"tokenfile", "configembedded"}
KeyFile(l) == IF l = "tokenfile" THEN ".plannet_key" ELSE ".plannetrc"
RecordFile(l) == IF l = "tokenfile" THEN ".plannet_tokens" ELSE ".plannetrc"
Files == {".plannet_key", ".plannet_tokens", ".plannetrc"}

\* len(s) of the strings that occur in the files
StrLen(s) ==
    CASE s = "jira" -> 4
      [] s = "gh" -> 2
      [] s = "jira_token" -> 10
      [] s = "llm_token" -> 9
      [] s = "editor" -> 6
      [] s = "vim" -> 3
      [] s = "k" -> 1
      [] s = "aaaaaaaaaaaaaaaaaaaaaaaa" -> 24
      [] s = "tok-abc123" -> 10
      [] s = "s3cr3t" -> 6
      [] OTHER -> 0

\* contents of a file: absent, raw bytes (a generated key), or a JSON object
\* with string values; len is the size in bytes
Absent == [kind |-> "absent", key |-> "", len |-> 0, obj |-> << >>]
RawKey(k) == [kind |-> "raw", key |-> k, len |-> 32, obj |-> << >>]

\* the bytes nonce || ciphertext || tag produced by Seal(nonce, nonce, pt)
\* under the key bytes key; flips are the parts in which a bit was flipped
\* since, cut the number of bytes cut off its end since
NoBlob == [key |-> Absent, nonce |-> "", pt |-> NoSecret, flips |-> {},
           cut |-> 0]
BlobParts == {"nonce", "ciphertext", "tag"}

\* a JSON string value: a plain string, or the base64 text of a blob
Plain(s) == [t |-> "plain", s |-> s, blob |-> NoBlob]

\* aesGCM.NonceSize() and the size of the GCM tag
NonceSize == 12
TagSize == 16

\* lengths a blob is cut down to: one byte less than the nonce, and the nonce
\* alone
Keeps == {NonceSize - 1, NonceSize}
\* the names whose blob gets cut
CutNames == {"jira"}

\* aes.NewCipher accepts keys of 16, 24 or 32 bytes
ValidKeySize(n) == n \in {16, 24, 32}

\* aesGCM.Seal(nonce, nonce, []byte(token), nil)
Seal(key, nonce, token) ==
    [key |-> key, nonce |-> nonce, pt |-> token, flips |-> {}, cut |-> 0]

\* aesGCM.Open(nil, nonce, ciphertext, nil): the plaintext when the tag
\* authenticates nonce and ciphertext under the key
OpenNoAuth(key, blob) == [ok |-> TRUE, pt |-> blob.pt]
Open(key, blob) ==
    IF blob.key = key /\ blob.flips = {} /\ blob.cut = 0
    THEN [ok |-> TRUE, pt |-> blob.pt]
    ELSE [ok |-> FALSE, pt |-> NoSecret]

SealedLen(blob) == NonceSize + StrLen(blob.pt) + TagSize
BlobLen(blob) ==
    IF blob.cut >= SealedLen(blob) THEN 0 ELSE SealedLen(blob) - blob.cut

\* base64.StdEncoding.EncodeToString / DecodeString
EncodeToStringPlain(blob) == Plain(blob.pt)
EncodeToString(blob) == [t |-> "b64", s |-> "", blob |-> blob]
DecodeString(v) ==
    IF v.t = "b64" THEN [ok |-> TRUE, blob |-> v.blob]
    ELSE [ok |-> FALSE, blob |-> NoBlob]
B64Len(n) == 4 * ((n + 2) \div 3)
ValLen(v) == IF v.t = "b64" THEN B64Len(BlobLen(v.blob)) ELSE StrLen(v.s)

\* len(json.MarshalIndent(obj, "", "  "))
RECURSIVE EntriesLen(_, _)
EntriesLen(obj, fields) ==
    IF fields = {} THEN 0
    ELSE LET f == CHOOSE x \in fields : TRUE
         IN StrLen(f) + ValLen(obj[f]) + 8 + EntriesLen(obj, fields \ {f})
MarshalIndent(obj) ==
    [kind |-> "json", key |-> "", obj |-> obj,
     len |-> IF DOMAIN obj = {} THEN 2
             ELSE 4 + EntriesLen(obj, DOMAIN obj)
                    + 2 * (Cardinality(DOMAIN obj) - 1)]

\* the field of the config document that holds the token of a name
\* (config-embedded layout); NilValue for an unknown name
ConfigField(name) ==
    CASE name = "llm" -> "llm_token"
      [] name = "jira" -> "jira_token"
      [] OTHER -> NilValue

\* the field of the record document that holds the token of a name
RecordField(l, name) == IF l = "tokenfile" THEN name ELSE ConfigField(name)

\* a config document of the size config.Save writes, and a hand-written one
\* of 32 bytes
TypicalConfig ==
    [kind |-> "json", key |-> "", len |-> 76,
     obj |-> ("editor" :> Plain("vim"))]
TinyConfig ==
    [kind |-> "json", key |-> "", len |-> 32,
     obj |-> ("k" :> Plain("aaaaaaaaaaaaaaaaaaaaaaaa"))]

OK == "nil"

\* StoreToken up to and including the read of the record document: the
\* error returned, or the encoded token and the document read
StoreTokenRead(l, files, name, token, nonce) ==
    LET keyBytes == files[KeyFile(l)]
        doc == files[RecordFile(l)]
        encodedToken == EncodeToString(Seal(keyBytes, nonce, token))
        fail(e) == [err |-> e, encoded |-> encodedToken, tokens |-> << >>]
    IN IF keyBytes.kind = "absent"
       THEN fail("error reading encryption key")
       ELSE IF ~ValidKeySize(keyBytes.len)
       THEN fail("error creating cipher")
       ELSE IF l = "tokenfile"
       THEN IF doc.kind = "absent"
            THEN [err |-> OK, encoded |-> encodedToken, tokens |-> << >>]
            ELSE IF doc.kind # "json"
            THEN fail("error parsing token file")
            ELSE [err |-> OK, encoded |-> encodedToken, tokens |-> doc.obj]
       ELSE IF doc.kind = "absent"
            THEN fail("error reading config file")
            ELSE IF doc.kind # "json"
            THEN fail("error parsing config file")
            ELSE IF ConfigField(name) = NilValue
            THEN fail("unknown token key")
            ELSE [err |-> OK, encoded |-> encodedToken, tokens |-> doc.obj]

\* the rest of StoreToken: the document written back
StoreTokenWritePlain(l, tokens, name, encodedToken) ==
    MarshalIndent((RecordField(l, name) :> Plain(encodedToken.blob.pt))
                  @@ tokens)
\* a write of the new entry alone, without the entries read
StoreTokenWriteOnly(l, tokens, name, encodedToken) ==
    MarshalIndent(RecordField(l, name) :> encodedToken)
StoreTokenWrite(l, tokens, name, encodedToken) ==
    MarshalIndent((RecordField(l, name) :> encodedToken) @@ tokens)

\* the decoding half of GetToken, from the encoded token and the key bytes
DecryptTokenIgnoreAuth(keyBytes, encodedToken) ==
    [err |-> OK, token |-> encodedToken.blob.pt]
DecryptTokenNoLengthCheck(keyBytes, encodedToken) ==
    LET dec == DecodeString(encodedToken)
        opened == Open(keyBytes, dec.blob)
        fail(e) == [err |-> e, token |-> ""]
    IN IF ~dec.ok THEN fail("error decoding token")
       ELSE IF ~ValidKeySize(keyBytes.len) THEN fail("error creating cipher")
       ELSE IF ~opened.ok THEN fail("error decrypting token")
       ELSE [err |-> OK, token |-> opened.pt]
DecryptTokenNamesCause(keyBytes, encodedToken) ==
    LET dec == DecodeString(encodedToken)
        opened == Open(keyBytes, dec.blob)
        fail(e) == [err |-> e, token |-> ""]
    IN IF ~dec.ok THEN fail("error decoding token")
       ELSE IF ~ValidKeySize(keyBytes.len) THEN fail("error creating cipher")
       ELSE IF BlobLen(dec.blob) < NonceSize THEN fail("ciphertext too short")
       ELSE IF dec.blob.key # keyBytes THEN fail("error decrypting token: wrong key")
       ELSE IF ~opened.ok THEN fail("error decrypting token")
       ELSE [err |-> OK, token |-> opened.pt]
DecryptToken(keyBytes, encodedToken) ==
    LET dec == DecodeString(encodedToken)
        opened == Open(keyBytes, dec.blob)
        fail(e) == [err |-> e, token |-> ""]
    IN IF ~dec.ok THEN fail("error decoding token")
       ELSE IF ~ValidKeySize(keyBytes.len) THEN fail("error creating cipher")
       ELSE IF BlobLen(dec.blob) < NonceSize THEN fail("ciphertext too short")
       ELSE IF ~opened.ok THEN fail("error decrypting token")
       ELSE [err |-> OK, token |-> opened.pt]

\* GetToken
GetToken(l, files, name) ==
    LET keyBytes == files[KeyFile(l)]
        doc == files[RecordFile(l)]
        fail(e) == [err |-> e, token |-> ""]
    IN IF l = "tokenfile"
       THEN IF keyBytes.kind = "absent"
            THEN fail("error reading encryption key")
            ELSE IF doc.kind = "absent" THEN fail("error reading token file")
            ELSE IF doc.kind # "json" THEN fail("error parsing token file")
            ELSE IF name \notin DOMAIN doc.obj
            THEN fail("token not found for key")
            ELSE DecryptToken(keyBytes, doc.obj[name])
       ELSE IF doc.kind = "absent" THEN fail("error reading config file")
            ELSE IF doc.kind # "json" THEN fail("error parsing config file")
            ELSE IF ConfigField(name) = NilValue
            THEN fail("unknown token key")
            ELSE IF \/ ConfigField(name) \notin DOMAIN doc.obj
                    \/ ValLen(doc.obj[ConfigField(name)]) = 0
            THEN fail("token not found for key")
            ELSE DecryptToken(keyBytes, doc.obj[ConfigField(name)])

----------------------------------------------------------------------------
(* State machine of the token storage *)

NoVLoc == [name |-> "jira", token |-> NoSecret,
           encoded |-> Plain(""), tokens |-> << >>]
NoGet == [done |-> FALSE, name |-> "jira", flips |-> {}, err |-> OK,
          token |-> ""]

\* no rate limiter in use
LimiterUnused ==
    /\ limit = 1
    /\ window = 1
    /\ requests = << >>
    /\ mu = NoProc
    /\ clock = 0
    /\ pc = [p \in Procs |-> "idle"]
    /\ loc = [p \in Procs |-> NoLoc]
    /\ origClient = [Transport |-> NilValue, Timeout |-> 0,
                     CheckRedirect |-> NilValue, Jar |-> NilValue]
    /\ wrapped = << >>
    /\ rt = NoRT
    /\ log = << >>
    /\ admitted = [k \in Keys |-> << >>]
    /\ ncalls = 0
    /\ wasReset = FALSE
    /\ client0 = origClient

InitVault ==
    /\ LimiterUnused
    /\ PathUnused
    /\ AuxUnused
    /\ layout \in Layouts
    /\ fs \in { f \in [Files -> {Absent, TypicalConfig, TinyConfig}] :
                  /\ f[".plannet_key"] = Absent
                  /\ f[".plannet_tokens"] = Absent
                  /\ layout = "tokenfile" => f[".plannetrc"] = Absent }
    /\ vpc = [p \in Procs |-> "start"]
    /\ vloc = [p \in Procs |-> NoVLoc]
    /\ lastStored = [n \in Names |-> NoSecret]
    /\ lastGet = NoGet
    /\ nstores = 0
    /\ ntampers = 0

\* NewTokenStorage up to os.Stat(keyFile)
OpenStat(p) ==
    /\ vpc[p] = "start"
    /\ vpc' = [vpc EXCEPT ![p] = IF fs[KeyFile(layout)].kind = "absent"
                                 THEN "open_create" ELSE "ready"]
    /\ lastGet' = NoGet
    /\ UNCHANGED <<rlVars, pathVars, auxVars, layout, fs, vloc, lastStored, nstores,
                   ntampers>>

\* NewTokenStorage: the key file did not exist; generate and write the key
OpenCreate(p, k) ==
    /\ vpc[p] = "open_create"
    /\ fs' = [fs EXCEPT ![KeyFile(layout)] = RawKey(k)]
    /\ vpc' = [vpc EXCEPT ![p] = "ready"]
    /\ lastGet' = NoGet
    /\ UNCHANGED <<rlVars, pathVars, auxVars, layout, vloc, lastStored, nstores,
                   ntampers>>

\* ts.StoreToken(name, token), first half
StoreRead(p, name, token, nonce) ==
    /\ vpc[p] = "ready"
    /\ nstores < MaxStores
    /\ nstores' = nstores + 1
    /\ LET r == StoreTokenRead(layout, fs, name, token, nonce)
       IN IF r.err = OK
          THEN /\ vpc' = [vpc EXCEPT ![p] = "store_write"]
               /\ vloc' = [vloc EXCEPT ![p] =
                             [name |-> name, token |-> token,
                              encoded |-> r.encoded, tokens |-> r.tokens]]
          ELSE UNCHANGED <<vpc, vloc>>
    /\ lastGet' = NoGet
    /\ UNCHANGED <<rlVars, pathVars, auxVars, layout, fs, lastStored, ntampers>>

\* ts.StoreToken, second half: write the document and return nil
StoreWrite(p) ==
    /\ vpc[p] = "store_write"
    /\ LET l == vloc[p]
       IN /\ fs' = [fs EXCEPT ![RecordFile(layout)] =
                      StoreTokenWrite(layout, l.tokens, l.name, l.encoded)]
          /\ lastStored' = [lastStored EXCEPT ![l.name] = l.token]
    /\ vpc' = [vpc EXCEPT ![p] = "ready"]
    /\ vloc' = [vloc EXCEPT ![p] = NoVLoc]
    /\ lastGet' = NoGet
    /\ UNCHANGED <<rlVars, pathVars, auxVars, layout, nstores, ntampers>>

\* ts.GetToken(name)
Get(p, name) ==
    /\ vpc[p] = "ready"
    /\ LET r == GetToken(layout, fs, name)
           doc == fs[RecordFile(layout)]
           f == RecordField(layout, name)
       IN lastGet' = [done |-> TRUE, name |-> name,
                      flips |-> IF doc.kind = "json" /\ f \in DOMAIN doc.obj
                                THEN doc.obj[f].blob.flips ELSE {},
                      err |-> r.err, token |-> r.token]
    /\ UNCHANGED <<rlVars, pathVars, auxVars, layout, fs, vpc, vloc, lastStored, nstores,
                   ntampers>>

\* somebody else flips one bit of the blob stored for a name; a blob is
\* damaged in one way, by flipped bits or by a cut
Tamper(name, part) ==
    /\ ntampers < MaxTampers
    /\ LET doc == fs[RecordFile(layout)]
           f == RecordField(layout, name)
       IN /\ doc.kind = "json"
          /\ f \in DOMAIN doc.obj
          /\ doc.obj[f].t = "b64"
          /\ doc.obj[f].blob.cut = 0
          /\ LET b == doc.obj[f].blob
                 flipped == [b EXCEPT !.flips =
                               (@ \ {part}) \cup ({part} \ @)]
             IN fs' = [fs EXCEPT ![RecordFile(layout)].obj[f].blob = flipped]
    /\ ntampers' = ntampers + 1
    /\ lastGet' = NoGet
    /\ UNCHANGED <<rlVars, pathVars, auxVars, layout, vpc, vloc, lastStored, nstores>>

\* somebody else cuts the blob stored for a name down to its first keep bytes
Truncate(name, keep) ==
    /\ ntampers < MaxTampers
    /\ LET doc == fs[RecordFile(layout)]
           f == RecordField(layout, name)
       IN /\ doc.kind = "json"
          /\ f \in DOMAIN doc.obj
          /\ doc.obj[f].t = "b64"
          /\ doc.obj[f].blob.cut = 0
          /\ doc.obj[f].blob.flips = {}
          /\ keep < BlobLen(doc.obj[f].blob)
          /\ LET b == doc.obj[f].blob
                 shorter == [b EXCEPT !.cut = SealedLen(b) - keep]
             IN fs' = [fs EXCEPT ![RecordFile(layout)].obj[f].blob = shorter]
    /\ ntampers' = ntampers + 1
    /\ lastGet' = NoGet
    /\ UNCHANGED <<rlVars, pathVars, auxVars, layout, vpc, vloc, lastStored,
                   nstores>>

NextVault ==
    \/ \E p \in Procs : OpenStat(p)
    \/ \E p \in Procs, k \in KeyBytes : OpenCreate(p, k)
    \/ \E p \in Procs, name \in Names, token \in Secrets,
          nonce \in Nonces : StoreRead(p, name, token, nonce)
    \/ \E p \in Procs : StoreWrite(p)
    \/ \E p \in Procs, name \in Names : Get(p, name)
    \/ \E name \in Names, part \in BlobParts : Tamper(name, part)
    \/ \E name \in CutNames, keep \in Keeps : Truncate(name, keep)

SpecVault == InitVault /\ [][NextVault]_vars

----------------------------------------------------------------------------
(* Properties of the rate limiter *)

\* the completed calls of Allow(k) since the last Reset, in order
KeyLog(k) == SelectSeqIdx(log, {i \in DOMAIN log : log[i].key = k})

\* the number of timestamps of the list ts strictly newer than now - window
NewerThan(ts, now) == Cardinality({i \in DOMAIN ts : ts[i] > now - window})

\* the timestamps admitted for k since the last Reset
AdmittedSinceReset(k) ==
    LET kl == KeyLog(k)
    IN SelectSeqIdx([i \in DOMAIN kl |-> kl[i].now],
                    {i \in DOMAIN kl : kl[i].ok})

\* C1 as stated: for limit >= 1, at every instant and for every key, at most
\* limit admitted Allow calls have a timestamp strictly newer than
\* now - window, whatever Allow and Reset calls happened.
C1_Original ==
    limit >= 1 => \A k \in Keys : NewerThan(admitted[k], clock) <= limit

\* C1 (amended): for limit >= 1, at every instant and for every key, at most
\* limit of the Allow calls admitted since the most recent Reset have a
\* timestamp strictly newer than now - window.
C1_SlidingWindowBound ==
    limit >= 1 =>
        \A k \in Keys : NewerThan(AdmittedSinceReset(k), clock) <= limit

\* a key holds limit live admissions after a Reset and a call was rejected
C1_Witness ==
    /\ limit >= 1
    /\ wasReset
    /\ \E k \in Keys :
          /\ NewerThan(AdmittedSinceReset(k), clock) = limit
          /\ \E i \in DOMAIN log : log[i].key = k /\ ~log[i].ok

\* C2: with limit = 1, among the Allow calls of one key that fall within one
\* window starting at the first use of the key, exactly one returns true and
\* all others return false, in every interleaving of the goroutines.
C2_ConcurrentAdmission ==
    limit = 1 =>
        \A k \in Keys :
            LET kl == KeyLog(k)
                inWindow == {i \in DOMAIN kl : kl[i].now - kl[1].now < window}
            IN kl # << >> =>
                  Cardinality({i \in inWindow : kl[i].ok}) = 1

\* two calls of one key overlapped (one waited for the mutex while the other
\* was inside Allow) within one window: one was admitted, one rejected
C2_Witness ==
    /\ limit = 1
    /\ \E k \in Keys :
          LET kl == KeyLog(k)
          IN /\ Len(kl) >= 2
             /\ kl[1].overlap
             /\ kl[2].now - kl[1].now < window
             /\ kl[1].ok /\ ~kl[2].ok

\* the oldest of the (at most limit) most recent admissions before call j
\* of the key log kl
OldestRetained(kl, j) ==
    LET adm == {i \in 1..(j - 1) : kl[i].ok}
        recent == {i \in adm : Cardinality({h \in adm : h >= i}) <= limit}
    IN Min(recent)

\* C3: for limit L >= 1 and a key unused so far, of the first L+1 calls
\* issued within one window the first L return true and the (L+1)-th false;
\* and a call made when the oldest retained admission is no longer newer
\* than now - window returns true.
C3_BoundaryAndRecovery ==
    limit >= 1 =>
        \A k \in Keys :
            LET kl == KeyLog(k)
            IN /\ \A j \in DOMAIN kl :
                     (j <= limit + 1 /\ kl[j].now - kl[1].now < window)
                         => (kl[j].ok <=> j <= limit)
               /\ \A j \in DOMAIN kl :
                     ((\E i \in 1..(j - 1) : kl[i].ok)
                      /\ kl[OldestRetained(kl, j)].now <= kl[j].now - window)
                         => kl[j].ok

\* limit admissions, a rejection within the window, and an admission after
\* the oldest admission left the window
C3_Witness ==
    /\ limit >= 1
    /\ \E k \in Keys :
          LET kl == KeyLog(k)
          IN /\ Len(kl) >= limit + 2
             /\ kl[limit + 1].now - kl[1].now < window
             /\ ~kl[limit + 1].ok
             /\ kl[1].now <= kl[limit + 2].now - window
             /\ kl[limit + 2].ok

\* a limiter that only ever sees the calls of one key: the results and the
\* stored entry after the calls at the instants nows
RECURSIVE ReplayKey(_)
ReplayKey(nows) ==
    IF nows = << >>
    THEN [present |-> FALSE, reqs |-> << >>, oks |-> << >>]
    ELSE LET n == Len(nows)
             before == ReplayKey(SubSeq(nows, 1, n - 1))
             r == AllowBody(before.present, before.reqs, nows[n], limit,
                            window)
         IN [present |-> before.present \/ r.write,
             reqs |-> IF r.write THEN r.list ELSE before.reqs,
             oks |-> Append(before.oks, r.ok)]

\* C4: the results of the calls of a key and the list stored for it are
\* those of a limiter that never saw a call of any other key: Allow(a)
\* neither reads nor changes the entry of b /= a.
C4_KeyIsolation ==
    \A k \in Keys :
        LET kl == KeyLog(k)
            alone == ReplayKey([i \in DOMAIN kl |-> kl[i].now])
        IN /\ [i \in DOMAIN kl |-> kl[i].ok] = alone.oks
           /\ (k \in DOMAIN requests) = alone.present
           /\ k \in DOMAIN requests => requests[k] = alone.reqs

\* the limit of one key was exhausted, and a later call of another key was
\* admitted
C4_Witness ==
    /\ limit >= 1
    /\ \E i, j \in DOMAIN log :
          /\ i < j
          /\ log[i].key # log[j].key
          /\ ~log[i].ok
          /\ log[j].ok
          /\ log[i].key \in DOMAIN requests
          /\ log[j].key \in DOMAIN requests

----------------------------------------------------------------------------
(* Properties of the wrapped clients *)

\* C5: a RoundTrip whose call of Allow returned false returns a nil response
\* and the rate-limit error naming the key of the wrapped client, without
\* invoking the underlying transport and without a second attempt.
C5_DeniedNoNetwork ==
    (rt.done /\ ~rt.allowed) =>
        /\ rt.resp = NilValue
        /\ rt.err = [kind |-> "rate limit exceeded for", key |-> rt.via]
        /\ rt.forwards = 0
        /\ rt.target = NilValue
        /\ rt.allowCalls = 1

\* a RoundTrip returned after its call of Allow was rejected
C5_Witness == rt.done /\ ~rt.allowed /\ limit >= 1

\* C6: every RoundTrip calls Allow once; when admitted it forwards the
\* request once to the transport of the original client (the default
\* transport when that is nil) and returns its result unchanged; the wrapped
\* client carries Timeout, CheckRedirect and Jar of the original client,
\* which is not modified.
C6_AdmittedDelegated ==
    /\ rt.done => rt.allowCalls = 1
    /\ (rt.done /\ rt.allowed) =>
          /\ rt.forwards = 1
          /\ rt.target = IF client0.Transport = NilValue
                         THEN "DefaultTransport" ELSE client0.Transport
          /\ rt.resp = rt.netRes.resp
          /\ rt.err = rt.netRes.err
    /\ \A k \in DOMAIN wrapped :
          /\ wrapped[k].Timeout = client0.Timeout
          /\ wrapped[k].CheckRedirect = client0.CheckRedirect
          /\ wrapped[k].Jar = client0.Jar
    /\ origClient = client0

\* an admitted RoundTrip on a client with its own transport and cookie jar
\* returned the response of that transport
C6_Witness ==
    /\ rt.done /\ rt.allowed
    /\ rt.resp = "response"
    /\ client0.Jar # NilValue
    /\ rt.target = "customTransport"

----------------------------------------------------------------------------
(* Properties of the token storage *)

\* the value stored for a name in the record document, if any
HasRecord(name) ==
    /\ fs[RecordFile(layout)].kind = "json"
    /\ RecordField(layout, name) \in DOMAIN fs[RecordFile(layout)].obj
StoredValue(name) == fs[RecordFile(layout)].obj[RecordField(layout, name)]

\* nobody flipped a bit of the value stored for a name or cut it
Untampered(name) ==
    HasRecord(name) =>
        /\ StoredValue(name).blob.flips = {}
        /\ StoredValue(name).blob.cut = 0

\* C7: once StoreToken(name, s) returned nil, and until another StoreToken
\* of that name returns, GetToken(name) returns exactly s (and s2 after a
\* later StoreToken(name, s2)), in both implementations.
C7_VaultRoundTrip ==
    \A name \in Names :
        (lastStored[name] # NoSecret /\ Untampered(name)) =>
            GetToken(layout, fs, name) =
                [err |-> OK, token |-> lastStored[name]]

\* C8: when a bit of nonce, ciphertext or tag of the blob stored for a name
\* was flipped, GetToken of security/token.go fails with the decryption
\* error and returns no plaintext.
C8_TamperDetection ==
    layout = "tokenfile" =>
        /\ \A name \in Names :
              (HasRecord(name) /\ StoredValue(name).blob.flips # {}) =>
                  GetToken(layout, fs, name) =
                      [err |-> "error decrypting token", token |-> ""]
        /\ (lastGet.done /\ lastGet.flips # {}) =>
              /\ lastGet.err = "error decrypting token"
              /\ lastGet.token = ""

\* GetToken was called on a tampered blob and failed to decrypt it
C8_Witness ==
    /\ layout = "tokenfile"
    /\ lastGet.done
    /\ lastGet.flips # {}
    /\ lastGet.err = "error decrypting token"
    /\ lastStored[lastGet.name] # NoSecret

\* no file holds the plain text of a secret
NoPlaintextOnDisk ==
    \A f \in Files :
        fs[f].kind = "json" =>
            \A x \in DOMAIN fs[f].obj :
                ~(fs[f].obj[x].t = "plain" /\ fs[f].obj[x].s \in Secrets)

\* C9: no file written by the storage holds a stored secret in plain text;
\* the record of a stored name is the base64 text of nonce, ciphertext and
\* tag, and GetToken still returns the secret from it.
C9_NoPlaintextOnDisk ==
    /\ NoPlaintextOnDisk
    /\ \A name \in Names :
          (lastStored[name] # NoSecret /\ Untampered(name)) =>
              /\ HasRecord(name)
              /\ StoredValue(name).t = "b64"
              /\ GetToken(layout, fs, name).token = lastStored[name]

----------------------------------------------------------------------------
(* Path sanitizer: paths are sequences of characters *)

\* F applied to the values of its arguments, each evaluated once
Bind1(F(_), a) == CHOOSE r \in {F(x) : x \in {a}} : TRUE
Bind2(F(_, _), a, b) == CHOOSE r \in {F(x, y) : x \in {a}, y \in {b}} : TRUE
Bind3(F(_, _, _), a, b, c) ==
    CHOOSE r \in {F(x, y, z) : x \in {a}, y \in {b}, z \in {c}} : TRUE

Slash == "/"
Dot == "."

\* a comparison of the whole string where a substring test is meant
ContainsWhole(s0, sub0) == s0 = sub0

\* strings.Contains(s, sub)
Contains(s0, sub0) ==
    LET contains(s, sub) ==
            \E i \in 1..(Len(s) - Len(sub) + 1) :
                SubSeq(s, i, i + Len(sub) - 1) = sub
    IN Bind2(contains, s0, sub0)

\* strings.HasPrefix(s, prefix)
HasPrefix(s0, prefix0) ==
    LET hasPrefix(s, prefix) ==
            /\ Len(prefix) <= Len(s)
            /\ SubSeq(s, 1, Len(prefix)) = prefix
    IN Bind2(hasPrefix, s0, prefix0)

\* the non-empty elements of a path between separators
RECURSIVE SegsFrom(_, _, _)
SegsFrom(path, i, cur) ==
    IF i > Len(path)
    THEN IF cur = << >> THEN << >> ELSE <<cur>>
    ELSE IF path[i] = Slash
         THEN IF cur = << >> THEN SegsFrom(path, i + 1, << >>)
              ELSE <<cur>> \o SegsFrom(path, i + 1, << >>)
         ELSE SegsFrom(path, i + 1, Append(cur, path[i]))
Segs(path0) ==
    LET segs(path) == SegsFrom(path, 1, << >>) IN Bind1(segs, path0)

RECURSIVE JoinFrom(_, _)
JoinFrom(segs, i) ==
    IF i > Len(segs) THEN << >>
    ELSE IF i = Len(segs) THEN segs[i]
    ELSE segs[i] \o <<Slash>> \o JoinFrom(segs, i + 1)
JoinSegs(segs0) ==
    LET join(segs) == JoinFrom(segs, 1) IN Bind1(join, segs0)

\* the absolute path made of the elements segs
FromSegs(segs) == <<Slash>> \o JoinSegs(segs)

IsAbs(path0) ==
    LET isAbs(path) == path # << >> /\ path[1] = Slash IN Bind1(isAbs, path0)

\* elimination of "." and ".." elements
RECURSIVE NormalizeFrom(_, _, _, _)
NormalizeFrom(segs, i, acc, abs) ==
    IF i > Len(segs) THEN acc
    ELSE IF segs[i] = <<Dot>> THEN NormalizeFrom(segs, i + 1, acc, abs)
    ELSE IF segs[i] = <<Dot, Dot>>
    THEN IF acc # << >> /\ acc[Len(acc)] # <<Dot, Dot>>
         THEN NormalizeFrom(segs, i + 1, SubSeq(acc, 1, Len(acc) - 1), abs)
         ELSE IF abs THEN NormalizeFrom(segs, i + 1, acc, abs)
         ELSE NormalizeFrom(segs, i + 1, Append(acc, segs[i]), abs)
    ELSE NormalizeFrom(segs, i + 1, Append(acc, segs[i]), abs)
Normalize(segs0, abs0) ==
    LET normalize(segs, abs) == NormalizeFrom(segs, 1, << >>, abs)
    IN Bind2(normalize, segs0, abs0)

\* filepath.Clean
Clean(path0) ==
    LET clean(path) ==
            IF path = << >> THEN <<Dot>>
            ELSE LET cleaned(n) ==
                         IF IsAbs(path) THEN FromSegs(n)
                         ELSE IF n = << >> THEN <<Dot>> ELSE JoinSegs(n)
                 IN Bind1(cleaned, Normalize(Segs(path), IsAbs(path)))
    IN Bind1(clean, path0)

\* filepath.Join of two elements
Join(a0, b0) ==
    LET join(a, b) ==
            IF a = << >> THEN (IF b = << >> THEN << >> ELSE Clean(b))
            ELSE IF b = << >> THEN Clean(a)
            ELSE Clean(a \o <<Slash>> \o b)
    IN Bind2(join, a0, b0)

\* filepath.Dir
Dir(path0) ==
    LET dir(path) ==
            LET slashes == {i \in DOMAIN path : path[i] = Slash}
            IN Clean(SubSeq(path, 1,
                            IF slashes = {} THEN 0 ELSE Max(slashes)))
    IN Bind1(dir, path0)

\* filepath.Abs; the working directory is the root
Abs(path0) ==
    LET abs(path) ==
            IF IsAbs(path) THEN Clean(path) ELSE Join(<<Slash>>, path)
    IN Bind1(abs, path0)

\* filepath.Base of a cleaned absolute path
Base(path0) ==
    LET base(s) == IF s = << >> THEN <<Slash>> ELSE s[Len(s)]
    IN Bind1(base, Segs(path0))

\* nodes of the file tree
DirNode == [type |-> "dir", target |-> << >>, data |-> "", mode |-> 493]
FileNode(data, mode) ==
    [type |-> "file", target |-> << >>, data |-> data, mode |-> mode]
LinkNode(target) ==
    [type |-> "link", target |-> target, data |-> "", mode |-> 511]

\* resolution of the symbolic links of the elements todo below the resolved
\* directory done; when lenient, elements that cannot be entered are taken
\* literally instead of failing; depth bounds the links followed
RECURSIVE Walk(_, _, _, _, _)
Walk(ftree, done0, todo0, lenient, depth) ==
    LET walk(done, todo) ==
            IF todo = << >> THEN [err |-> "nil", path |-> FromSegs(done)]
            ELSE LET step(here) ==
                   IF here \notin DOMAIN ftree
                   THEN IF lenient
                        THEN [err |-> "nil", path |-> FromSegs(done \o todo)]
                        ELSE [err |-> "not exist", path |-> << >>]
                   ELSE IF ftree[here].type = "link"
                   THEN IF depth = 0
                        THEN [err |-> "too many links", path |-> << >>]
                        ELSE Walk(ftree, << >>,
                                  Segs(ftree[here].target) \o Tail(todo),
                                  lenient, depth - 1)
                   ELSE IF ftree[here].type = "file" /\ Tail(todo) # << >>
                   THEN IF lenient
                        THEN [err |-> "nil", path |-> FromSegs(done \o todo)]
                        ELSE [err |-> "not a directory", path |-> << >>]
                   ELSE Walk(ftree, Append(done, Head(todo)), Tail(todo),
                             lenient, depth)
                 IN Bind1(step, FromSegs(Append(done, Head(todo))))
    IN Bind2(walk, done0, todo0)

MaxLinks == 3

\* filepath.EvalSymlinks of an absolute path
EvalSymlinks(ftree, path) ==
    Walk(ftree, << >>, Normalize(Segs(path), TRUE), FALSE, MaxLinks)

\* where the kernel ends up when a path is opened: links resolved in all
\* elements that exist
Resolve(ftree, path) ==
    Walk(ftree, << >>, Normalize(Segs(path), TRUE), TRUE, MaxLinks)

NoPath == << >>

\* SanitizeFilePath of the security package
SanitizeFilePathSecurity(ftree, baseDir, filePath0) ==
    LET fail(e) == [err |-> e, path |-> NoPath]
        sanitize(filePath, absPath) ==
            LET check(evalBase, evalDir) ==
                    LET resolvedBase == IF evalBase.err # "nil" THEN baseDir
                                        ELSE evalBase.path
                        resolved1 == IF /\ evalDir.err # "nil"
                                        /\ evalDir.err # "not exist"
                                     THEN Dir(absPath) ELSE evalDir.path
                        resolvedPath == IF evalDir.err = "not exist"
                                        THEN Dir(resolved1) ELSE resolved1
                    IN IF ~HasPrefix(Clean(resolvedPath),
                                     Clean(resolvedBase))
                       THEN fail("file path is outside the base directory")
                       ELSE [err |-> "nil", path |-> absPath]
            IN IF filePath = << >> THEN fail("file path cannot be empty")
               ELSE IF Contains(filePath, <<Dot, Dot>>)
               THEN fail("file path contains forbidden path traversal pattern")
               ELSE Bind2(check, EvalSymlinks(ftree, baseDir),
                          EvalSymlinks(ftree, Dir(absPath)))
    IN Bind2(sanitize, filePath0, Abs(Join(baseDir, filePath0)))

\* what SanitizeFilePath of the security package writes to standard output:
\* the fmt.Printf statements it executes, in order, each named by the fixed
\* text its line starts with
SanitizeFilePathOutput(ftree, baseDir, filePath0) ==
    LET output(filePath, absPath) ==
            LET rest(evalBase, evalDir) ==
                    (IF evalBase.err # "nil"
                     THEN <<"Debug: Error resolving base directory">>
                     ELSE << >>)
                    \o <<"Debug: Resolved base directory",
                         "Debug: Absolute path">>
                    \o (IF /\ evalDir.err # "nil"
                           /\ evalDir.err # "not exist"
                        THEN <<"Debug: Error resolving path">> ELSE << >>)
                    \o <<"Debug: Resolved path">>
                    \o (IF evalDir.err = "not exist"
                        THEN <<"Debug: Using parent directory">> ELSE << >>)
                    \o <<"Debug: Cleaned paths">>
            IN <<"Debug: Input">>
               \o (IF filePath = << >> \/ Contains(filePath, <<Dot, Dot>>)
                   THEN << >>
                   ELSE Bind2(rest, EvalSymlinks(ftree, baseDir),
                              EvalSymlinks(ftree, Dir(absPath))))
    IN Bind2(output, filePath0, Abs(Join(baseDir, filePath0)))

\* SanitizeFilePath of cmd/status.go
SanitizeFilePathCmd(ftree, baseDir, filePath0) ==
    LET fail(e) == [err |-> e, path |-> NoPath]
        sanitize(filePath, absPath) ==
            IF filePath = << >> THEN fail("file path cannot be empty")
            ELSE IF Contains(filePath, <<Dot, Dot>>)
            THEN fail("file path contains forbidden path traversal pattern")
            ELSE IF ~HasPrefix(absPath, baseDir)
            THEN fail("file path is outside the base directory")
            ELSE [err |-> "nil", path |-> absPath]
    IN Bind2(sanitize, filePath0, Abs(Join(baseDir, filePath0)))

Impls == {"security", "cmd"}

SanitizeFilePath(i, ftree, baseDir, filePath) ==
    IF i = "security" THEN SanitizeFilePathSecurity(ftree, baseDir, filePath)
    ELSE SanitizeFilePathCmd(ftree, baseDir, filePath)

\* the lines a call of SanitizeFilePath, and so of every Safe* function, writes
\* to standard output; the copy in cmd/status.go prints nothing
Stdout(i, ftree, baseDir, filePath) ==
    IF i = "security" THEN SanitizeFilePathOutput(ftree, baseDir, filePath)
    ELSE << >>

HasChildren(ftree, path) ==
    \E q \in DOMAIN ftree : q # path /\ Dir(q) = path

\* os.ReadFile(path): every link on the way is followed, the last included
ReadFile(ftree, path) ==
    LET read(r) ==
            IF r.err # "nil" THEN [err |-> r.err, at |-> NoPath, data |-> ""]
            ELSE IF r.path \notin DOMAIN ftree \/ ftree[r.path].type = "dir"
            THEN [err |-> "is a directory", at |-> NoPath, data |-> ""]
            ELSE [err |-> "nil", at |-> r.path, data |-> ftree[r.path].data]
    IN Bind1(read, EvalSymlinks(ftree, path))

\* os.MkdirAll(path, mode): missing directories are created below the
\* resolved location of the existing ones
RECURSIVE MkdirAllFrom(_, _, _, _, _)
MkdirAllFrom(ftree0, done0, todo0, mode, depth) ==
    LET mkdir(ftree, done, todo) ==
            IF todo = << >> THEN [err |-> "nil", tree |-> ftree]
            ELSE LET step(here) ==
                   IF here \notin DOMAIN ftree
                   THEN MkdirAllFrom((here :> [DirNode EXCEPT !.mode = mode])
                                         @@ ftree,
                                     Append(done, Head(todo)), Tail(todo),
                                     mode, depth)
                   ELSE IF ftree[here].type = "link"
                   THEN IF depth = 0
                        THEN [err |-> "too many links", tree |-> ftree]
                        ELSE MkdirAllFrom(ftree, << >>,
                                          Segs(ftree[here].target)
                                              \o Tail(todo),
                                          mode, depth - 1)
                   ELSE IF ftree[here].type = "file"
                   THEN [err |-> "not a directory", tree |-> ftree]
                   ELSE MkdirAllFrom(ftree, Append(done, Head(todo)),
                                     Tail(todo), mode, depth)
                 IN Bind1(step, FromSegs(Append(done, Head(todo))))
    IN Bind3(mkdir, ftree0, done0, todo0)

MkdirAll(ftree, path, mode) ==
    MkdirAllFrom(ftree, << >>, Segs(path), mode, MaxLinks)

\* os.WriteFile(path, data, perm): O_CREATE|O_TRUNC follows a link in the last
\* element; perm is used only when the file is created
RECURSIVE WriteFileAt(_, _, _, _, _)
WriteFileAt(ftree, path0, data, perm, depth) ==
    LET fail(e) == [err |-> e, at |-> NoPath, tree |-> ftree]
        write(path, parent) ==
            LET put(at) ==
                    IF at \notin DOMAIN ftree
                    THEN [err |-> "nil", at |-> at,
                          tree |-> (at :> FileNode(data, perm)) @@ ftree]
                    ELSE IF ftree[at].type = "link"
                    THEN IF depth = 0 THEN fail("too many links")
                         ELSE WriteFileAt(ftree, ftree[at].target, data,
                                          perm, depth - 1)
                    ELSE IF ftree[at].type = "dir"
                    THEN fail("is a directory")
                    ELSE [err |-> "nil", at |-> at,
                          tree |-> [ftree EXCEPT ![at].data = data]]
            IN IF parent.err # "nil" THEN fail(parent.err)
               ELSE IF ftree[parent.path].type # "dir"
               THEN fail("not a directory")
               ELSE Bind1(put, Join(parent.path, Base(path)))
    IN Bind2(write, path0, EvalSymlinks(ftree, Dir(path0)))

WriteFile(ftree, path, data, perm) ==
    WriteFileAt(ftree, path, data, perm, MaxLinks)

\* os.Remove(path): removes the entry itself, a link is not followed
Remove(ftree, path0) ==
    LET fail(e) == [err |-> e, at |-> NoPath, tree |-> ftree]
        remove(path, parent) ==
            LET drop(at) ==
                    IF at \notin DOMAIN ftree THEN fail("not exist")
                    ELSE IF ftree[at].type = "dir" /\ HasChildren(ftree, at)
                    THEN fail("directory not empty")
                    ELSE [err |-> "nil", at |-> at,
                          tree |-> [q \in DOMAIN ftree \ {at} |-> ftree[q]]]
            IN IF parent.err # "nil" THEN fail(parent.err)
               ELSE Bind1(drop, Join(parent.path, Base(path)))
    IN Bind2(remove, path0, EvalSymlinks(ftree, Dir(path0)))

\* SafeReadFile
SafeReadFile(i, ftree, baseDir, filePath) ==
    LET read(s) ==
            IF s.err # "nil"
            THEN [err |-> s.err, path |-> NoPath, at |-> NoPath, data |-> ""]
            ELSE [path |-> s.path] @@ ReadFile(ftree, s.path)
    IN Bind1(read, SanitizeFilePath(i, ftree, baseDir, filePath))

\* SafeWriteFile
SafeWriteFile(i, ftree, baseDir, filePath, data, perm) ==
    LET write(s) ==
            LET mkdir(m) ==
                    IF m.err # "nil"
                    THEN [err |-> "error creating directory",
                          path |-> s.path, at |-> NoPath, tree |-> m.tree]
                    ELSE [path |-> s.path]
                         @@ WriteFile(m.tree, s.path, data, perm)
            IN IF s.err # "nil"
               THEN [err |-> s.err, path |-> NoPath, at |-> NoPath,
                     tree |-> ftree]
               ELSE Bind1(mkdir, MkdirAll(ftree, Dir(s.path), 493))
    IN Bind1(write, SanitizeFilePath(i, ftree, baseDir, filePath))

\* SafeRemoveFile
SafeRemoveFile(i, ftree, baseDir, filePath) ==
    LET remove(s) ==
            IF s.err # "nil"
            THEN [err |-> s.err, path |-> NoPath, at |-> NoPath,
                  tree |-> ftree]
            ELSE [path |-> s.path] @@ Remove(ftree, s.path)
    IN Bind1(remove, SanitizeFilePath(i, ftree, baseDir, filePath))

\* the directories and files of the model
BaseDir == <<"/", "b">>
OutsideDir == <<"/", "e">>
OutsideFile == <<"/", "e", "/", "p">>
SiblingDir == <<"/", "b", "2">>
SiblingFile == <<"/", "b", "2", "/", "p">>
LinkPath == <<"/", "b", "/", "l">>

RelPaths ==
    { <<"f">>, <<"s", "/", "f">>, <<"l">>, <<"l", "/", "p">>,
      <<"n", "/", "f">>, << >>, <<".", ".", "/", "e", "/", "p">>,
      <<"a", ".", ".", "b">>, <<"/", "e", "/", "p">> }

LinkTargets == {OutsideDir, OutsideFile, SiblingDir}
Data == {"new"}
Perms == {420}

NoOp == [op |-> "none", rel |-> << >>, err |-> "nil", path |-> << >>,
         out |-> << >>,
         at |-> << >>, data |-> "", perm |-> 0]

InitTree ==
    (<<Slash>> :> DirNode)
    @@ (BaseDir :> DirNode)
    @@ (<<"/", "b", "/", "f">> :> FileNode("inside", 420))
    @@ (<<"/", "b", "/", "s">> :> DirNode)
    @@ (OutsideDir :> DirNode)
    @@ (OutsideFile :> FileNode("outside", 420))
    @@ (SiblingDir :> DirNode)
    @@ (SiblingFile :> FileNode("sibling", 420))

InitPath ==
    /\ LimiterUnused
    /\ VaultUnused
    /\ AuxUnused
    /\ impl \in Impls
    /\ tree = InitTree
    /\ lastOp = NoOp
    /\ nops = 0

\* a call of SanitizeFilePath(baseDir, filePath)
Sanitize(rel) ==
    \E s \in {SanitizeFilePath(impl, tree, BaseDir, rel)} :
        /\ lastOp' = [op |-> "sanitize", rel |-> rel, err |-> s.err,
                      out |-> Stdout(impl, tree, BaseDir, rel),
                      path |-> s.path, at |-> NoPath, data |-> "",
                      perm |-> 0]
        /\ UNCHANGED <<rlVars, vaultVars, auxVars, impl, tree, nops>>

\* a call of SafeReadFile(baseDir, filePath)
SafeRead(rel) ==
    \E r \in {SafeReadFile(impl, tree, BaseDir, rel)} :
        /\ lastOp' = [op |-> "read", rel |-> rel, err |-> r.err,
                      out |-> Stdout(impl, tree, BaseDir, rel),
                      path |-> r.path, at |-> r.at, data |-> r.data,
                      perm |-> 0]
        /\ UNCHANGED <<rlVars, vaultVars, auxVars, impl, tree, nops>>

\* a call of SafeWriteFile(baseDir, filePath, data, perm)
SafeWrite(rel, data, perm) ==
    /\ nops < MaxOps
    /\ \E r \in {SafeWriteFile(impl, tree, BaseDir, rel, data, perm)} :
          /\ nops' = nops + 1
          /\ tree' = r.tree
          /\ lastOp' = [op |-> "write", rel |-> rel, err |-> r.err,
                      out |-> Stdout(impl, tree, BaseDir, rel),
                        path |-> r.path, at |-> r.at, data |-> data,
                        perm |-> perm]
    /\ UNCHANGED <<rlVars, vaultVars, auxVars, impl>>

\* a call of SafeRemoveFile(baseDir, filePath)
SafeRemove(rel) ==
    /\ nops < MaxOps
    /\ \E r \in {SafeRemoveFile(impl, tree, BaseDir, rel)} :
          /\ nops' = nops + 1
          /\ tree' = r.tree
          /\ lastOp' = [op |-> "remove", rel |-> rel, err |-> r.err,
                      out |-> Stdout(impl, tree, BaseDir, rel),
                        path |-> r.path, at |-> r.at, data |-> "",
                        perm |-> 0]
    /\ UNCHANGED <<rlVars, vaultVars, auxVars, impl>>

\* another process of the same user plants a symbolic link in the base
\* directory
Symlink(target) ==
    /\ nops < MaxOps
    /\ nops' = nops + 1
    /\ LinkPath \notin DOMAIN tree
    /\ tree' = (LinkPath :> LinkNode(target)) @@ tree
    /\ lastOp' = NoOp
    /\ UNCHANGED <<rlVars, vaultVars, auxVars, impl>>

NextPath ==
    \/ \E rel \in RelPaths : Sanitize(rel)
    \/ \E rel \in RelPaths : SafeRead(rel)
    \/ \E rel \in RelPaths, data \in Data, perm \in Perms :
          SafeWrite(rel, data, perm)
    \/ \E rel \in RelPaths : SafeRemove(rel)
    \/ \E target \in LinkTargets : Symlink(target)

SpecPath == InitPath /\ [][NextPath]_vars

----------------------------------------------------------------------------
(* Properties of the path sanitizer *)

\* the location a path names once every symbolic link is resolved lies in the
\* resolved base directory or below it
Inside(path) ==
    LET inside(b, r) ==
            /\ r.err = "nil"
            /\ Len(Segs(b.path)) <= Len(Segs(r.path))
            /\ SubSeq(Segs(r.path), 1, Len(Segs(b.path))) = Segs(b.path)
    IN Bind2(inside, Resolve(tree, BaseDir), Resolve(tree, path))

\* C10: every path SanitizeFilePath returns, and every location SafeReadFile,
\* SafeWriteFile and SafeRemoveFile operate on, resolves to the base directory
\* or a descendant of it; a call whose path leaves the base directory through
\* a symbolic link or a parent reference fails and touches nothing on disk.
C10_PathContainment ==
    /\ \A rel \in RelPaths :
          \A s \in {SanitizeFilePath(impl, tree, BaseDir, rel)} :
              s.err = "nil" => Inside(s.path)
    /\ (lastOp.op \in {"read", "write", "remove"} /\ lastOp.err = "nil")
          => Inside(lastOp.at)

ErrEmptyPath == "file path cannot be empty"
ErrTraversalPattern == "file path contains forbidden path traversal pattern"
ErrOutsideBase == "file path is outside the base directory"

\* relPath has a parent-directory element
HasParentSegment(rel) ==
    \E i \in DOMAIN Segs(rel) : Segs(rel)[i] = <<Dot, Dot>>

\* C11: SanitizeFilePath fails with the empty-path error when relPath is
\* empty and with the traversal-pattern error whenever relPath has a ".."
\* element; it returns no path, and the outcome is the one obtained on an
\* empty file tree, so nothing of the filesystem enters the decision.
C11_TextualRejection ==
    \A rel \in RelPaths :
        \A s \in {SanitizeFilePath(impl, tree, BaseDir, rel)} :
            /\ rel = << >> => s = [err |-> ErrEmptyPath, path |-> NoPath]
            /\ HasParentSegment(rel) =>
                  s = [err |-> ErrTraversalPattern, path |-> NoPath]
            /\ (rel = << >> \/ HasParentSegment(rel)) =>
                  s = SanitizeFilePath(impl, << >>, BaseDir, rel)

C11_Witness ==
    /\ lastOp.op = "sanitize"
    /\ HasParentSegment(lastOp.rel)
    /\ lastOp.err = ErrTraversalPattern
    /\ lastOp.path = NoPath
    /\ LinkPath \in DOMAIN tree

\* C12: for a non-empty relPath without ".." element whose location stays in
\* the base directory, SanitizeFilePath of the security package succeeds and
\* returns Join(baseDir, relPath), also when the file or its parents do not
\* exist yet and when ".." occurs only inside a longer element.
C12_AcceptContained ==
    impl = "security" =>
        \A rel \in RelPaths :
            (/\ rel # << >>
             /\ ~HasParentSegment(rel)
             /\ Inside(Join(BaseDir, rel)))
            => SanitizeFilePath(impl, tree, BaseDir, rel)
                   = [err |-> "nil", path |-> Join(BaseDir, rel)]

\* C13: SafeWriteFile of a relPath that lies in the base directory and whose
\* parent directory does not exist creates the parent with mode 0700, writes
\* the data to the file with the caller's permission bits and returns nil.
C13_WriteCreatesParents ==
    [][\A rel \in RelPaths :
          (/\ lastOp'.op = "write"
           /\ lastOp'.rel = rel
           /\ rel # << >>
           /\ ~HasParentSegment(rel)
           /\ Inside(Join(BaseDir, rel))
           /\ Dir(Join(BaseDir, rel)) \notin DOMAIN tree)
          => /\ lastOp'.err = "nil"
             /\ Dir(Join(BaseDir, rel)) \in DOMAIN tree'
             /\ tree'[Dir(Join(BaseDir, rel))].type = "dir"
             /\ tree'[Dir(Join(BaseDir, rel))].mode = 448
             /\ Join(BaseDir, rel) \in DOMAIN tree'
             /\ tree'[Join(BaseDir, rel)]
                    = FileNode(lastOp'.data, lastOp'.perm)]_vars

----------------------------------------------------------------------------
(* Further properties of the token storage *)

ErrTokenNotFound == "token not found for key"

\* C14: GetToken of a name the layout knows that has no entry in the
\* persisted mapping, also when nothing was ever stored, fails with the
\* token-not-found error and returns no secret.
C14_AbsentNameNotFound ==
    (/\ lastGet.done
     /\ RecordField(layout, lastGet.name) # NilValue
     /\ ~HasRecord(lastGet.name))
    => /\ lastGet.err = ErrTokenNotFound
       /\ lastGet.token = ""

\* the mapping as StoreToken of security/token.go reads it
TokensOnDisk ==
    IF fs[".plannet_tokens"].kind = "json" THEN fs[".plannet_tokens"].obj
    ELSE << >>

\* C15: a StoreToken(name, s) of security/token.go that no other write
\* overlaps replaces only the entry of name: every other name keeps its blob
\* unchanged and GetToken of it returns what it returned before.
C15_StoreMerges ==
    [][\A p \in Procs :
          (/\ layout = "tokenfile"
           /\ vpc[p] = "store_write"
           /\ vpc'[p] = "ready"
           /\ vloc[p].tokens = TokensOnDisk)
          => /\ fs'[".plannet_tokens"].kind = "json"
             /\ DOMAIN fs'[".plannet_tokens"].obj
                    = DOMAIN TokensOnDisk \cup {vloc[p].name}
             /\ fs'[".plannet_tokens"].obj[vloc[p].name] = vloc[p].encoded
             /\ \A other \in DOMAIN TokensOnDisk \ {vloc[p].name} :
                   /\ fs'[".plannet_tokens"].obj[other] = TokensOnDisk[other]
                   /\ GetToken(layout, fs', other)
                          = GetToken(layout, fs, other)]_vars

\* both names were stored one after the other and both are retrievable
C15_Witness ==
    /\ layout = "tokenfile"
    /\ \A name \in Names :
          /\ lastStored[name] # NoSecret
          /\ HasRecord(name)
          /\ GetToken(layout, fs, name)
                 = [err |-> OK, token |-> lastStored[name]]

\* the outcome of GetToken when aesGCM.Open reports an error
ErrDecrypt == "error decrypting token"
DecryptFailure == [err |-> ErrDecrypt, token |-> ""]

\* the blob stored for a name was sealed under a key that is not the one in
\* the key file now
WrongKey(name) ==
    /\ HasRecord(name)
    /\ StoredValue(name).t = "b64"
    /\ StoredValue(name).blob.key # fs[KeyFile(layout)]

\* a bit of the blob stored for a name was flipped
Flipped(name) ==
    /\ HasRecord(name)
    /\ StoredValue(name).t = "b64"
    /\ StoredValue(name).blob.flips # {}

\* GetToken of a name gets as far as aesGCM.Open, which cannot authenticate
\* the blob
AuthFails(name) ==
    /\ fs[KeyFile(layout)].kind = "raw"
    /\ ValidKeySize(fs[KeyFile(layout)].len)
    /\ HasRecord(name)
    /\ StoredValue(name).t = "b64"
    /\ BlobLen(StoredValue(name).blob) >= NonceSize
    /\ (WrongKey(name) \/ Flipped(name))

\* C17: whatever made the authentication fail (the key file holds another
\* key, a bit of the blob was flipped, or both), GetToken of
\* security/token.go returns one and the same outcome: the decryption error
\* and no token; two names failing for different causes in the same state
\* get equal outcomes.
C17_DecryptFailuresAlike ==
    layout = "tokenfile" =>
        /\ \A n1 \in Names :
              AuthFails(n1) =>
                  \A got \in {GetToken(layout, fs, n1)} :
                      /\ got = DecryptFailure
                      /\ \A n2 \in Names :
                            AuthFails(n2) => GetToken(layout, fs, n2) = got
        /\ (lastGet.done /\ AuthFails(lastGet.name)) =>
              /\ lastGet.err = ErrDecrypt
              /\ lastGet.token = ""

\* GetToken failed for a blob that is intact but sealed under another key,
\* while another blob is sealed under the present key and has a flipped bit
C17_Witness ==
    /\ layout = "tokenfile"
    /\ lastGet.done
    /\ WrongKey(lastGet.name)
    /\ ~Flipped(lastGet.name)
    /\ lastGet.err = ErrDecrypt
    /\ \E other \in Names \ {lastGet.name} :
          /\ Flipped(other)
          /\ ~WrongKey(other)
          /\ AuthFails(other)

\* the outcome of GetToken for a blob that cannot hold a nonce
ErrTooShort == "ciphertext too short"

\* C18: when the blob stored for a name has fewer bytes than the nonce,
\* GetToken of security/token.go fails with its own error, which is neither
\* the decryption error nor the not-found error, without handing anything
\* to aesGCM.Open; when the blob has at least the bytes of a nonce and does
\* not authenticate, GetToken fails with the decryption error.
C18_MalformedRecord ==
    layout = "tokenfile" =>
        /\ ErrTooShort \notin {ErrDecrypt, ErrTokenNotFound}
        /\ \A name \in Names :
              (/\ fs[KeyFile(layout)].kind = "raw"
               /\ HasRecord(name)
               /\ StoredValue(name).t = "b64") =>
                  /\ BlobLen(StoredValue(name).blob) < NonceSize =>
                        GetToken(layout, fs, name) =
                            [err |-> ErrTooShort, token |-> ""]
                  /\ (/\ BlobLen(StoredValue(name).blob) >= NonceSize
                      /\ ~Open(fs[KeyFile(layout)], StoredValue(name).blob).ok)
                        => GetToken(layout, fs, name) = DecryptFailure
        /\ (/\ lastGet.done
            /\ HasRecord(lastGet.name)
            /\ BlobLen(StoredValue(lastGet.name).blob) < NonceSize) =>
              /\ lastGet.err = ErrTooShort
              /\ lastGet.token = ""

\* GetToken was called on a blob cut below the length of the nonce
C18_Witness ==
    /\ layout = "tokenfile"
    /\ lastGet.done
    /\ HasRecord(lastGet.name)
    /\ BlobLen(StoredValue(lastGet.name).blob) = NonceSize - 1
    /\ lastGet.err = ErrTooShort
    /\ lastStored[lastGet.name] # NoSecret

----------------------------------------------------------------------------
(* Credential manager of package auth, over the system keyring; it is the
   only code of the program that deletes a stored secret *)

servicePrefix == "plannet"
System == "jira"

\* fmt.Sprintf("%s-%s", servicePrefix, cm.system)
Service(system) == <<servicePrefix, system>>

\* keyring.Set / keyring.Get / keyring.Delete of github.com/zalando/go-keyring:
\* Get and Delete of an item that is not there return keyring.ErrNotFound
KeyringSet(kr, service, user, value) == (<<service, user>> :> value) @@ kr
KeyringGet(kr, service, user) ==
    IF <<service, user>> \in DOMAIN kr
    THEN [err |-> "nil", value |-> kr[<<service, user>>]]
    ELSE [err |-> "secret not found in keyring", value |-> << >>]
KeyringDelete(kr, service, user) ==
    IF <<service, user>> \in DOMAIN kr
    THEN [err |-> "nil",
          keyring |-> [k \in DOMAIN kr \ {<<service, user>>} |-> kr[k]]]
    ELSE [err |-> "secret not found in keyring", keyring |-> kr]

\* cm.StoreCredentials(creds)
StoreCredentials(kr, system, creds) ==
    IF creds.system # system
    THEN [err |-> "credential system mismatch", keyring |-> kr]
    ELSE [err |-> "nil",
          keyring |-> KeyringSet(kr, Service(system), creds.username, creds)]

\* cm.GetCredentials(username), for credentials that do not expire
GetCredentials(kr, system, username) ==
    LET got == KeyringGet(kr, Service(system), username)
    IN IF got.err # "nil"
       THEN [err |-> "failed to retrieve credentials", token |-> ""]
       ELSE [err |-> "nil", token |-> got.value.token]

\* cm.DeleteCredentials(username)
DeleteCredentials(kr, system, username) ==
    LET del == KeyringDelete(kr, Service(system), username)
    IN IF del.err # "nil"
       THEN [err |-> "failed to delete credentials", keyring |-> kr]
       ELSE [err |-> "nil", keyring |-> del.keyring]

CredSystems == {System, "asana"}

CredStore(name, system, token) ==
    /\ \E r \in {StoreCredentials(keyring, System,
                    [username |-> name, token |-> token, system |-> system])} :
          /\ keyring' = r.keyring
          /\ lastCred' = [op |-> "store", username |-> name, err |-> r.err,
                          token |-> token]
    /\ UNCHANGED <<rlVars, vaultVars, pathVars, twinVars, cfgVars, llmVars>>

CredGet(name) ==
    /\ \E r \in {GetCredentials(keyring, System, name)} :
          lastCred' = [op |-> "get", username |-> name, err |-> r.err,
                       token |-> r.token]
    /\ UNCHANGED <<rlVars, vaultVars, pathVars, twinVars, cfgVars, llmVars, keyring>>

CredDelete(name) ==
    /\ \E r \in {DeleteCredentials(keyring, System, name)} :
          /\ keyring' = r.keyring
          /\ lastCred' = [op |-> "delete", username |-> name, err |-> r.err,
                          token |-> ""]
    /\ UNCHANGED <<rlVars, vaultVars, pathVars, twinVars, cfgVars, llmVars>>

\* one goroutine uses the token storage and the credential manager
NextCred ==
    \/ OpenStat("g1")
    \/ \E k \in KeyBytes : OpenCreate("g1", k)
    \/ \E name \in Names, token \in Secrets, nonce \in Nonces :
          StoreRead("g1", name, token, nonce)
    \/ StoreWrite("g1")
    \/ \E name \in Names : Get("g1", name)
    \/ \E name \in Names, system \in CredSystems, token \in Secrets :
          CredStore(name, system, token)
    \/ \E name \in Names : CredGet(name)
    \/ \E name \in Names : CredDelete(name)

SpecCred == InitVault /\ [][NextCred]_vars

\* C16: a delete of a name that returns nil leaves the token storage
\* without an entry of that name (GetToken of the name then fails with the
\* not-found error) and with every other entry as it was; a delete of a name
\* that has no entry in the token storage fails.
C16_DeleteContract ==
    [][\A name \in Names :
          (lastCred'.op = "delete" /\ lastCred'.username = name) =>
              /\ lastCred'.err = "nil" =>
                    /\ HasRecord(name)
                    /\ ~HasRecord(name)'
                    /\ GetToken(layout, fs', name).err = ErrTokenNotFound
                    /\ \A other \in Names \ {name} :
                          GetToken(layout, fs', other) =
                              GetToken(layout, fs, other)
              /\ ~HasRecord(name) => lastCred'.err # "nil"]_vars

----------------------------------------------------------------------------
(* The two token storages side by side: the same calls are made on the one
   of security/token.go and on the one that keeps its tokens in .plannetrc;
   their files are distinct, so both live in the same home directory *)

\* NewTokenStorage(), with k the key that rand.Read would generate
NewTokenStorage(l, files, k) ==
    IF files[KeyFile(l)].kind = "absent"
    THEN [files EXCEPT ![KeyFile(l)] = RawKey(k)]
    ELSE files

\* ts.StoreToken(name, token) as one step
StoreToken(l, files, name, token, nonce) ==
    LET r == StoreTokenRead(l, files, name, token, nonce)
    IN IF r.err = OK
       THEN [err |-> OK,
             files |-> [files EXCEPT ![RecordFile(l)] =
                          StoreTokenWrite(l, r.tokens, name, r.encoded)]]
       ELSE [err |-> r.err, files |-> files]

NoTwin == [op |-> "none", name |-> "", a |-> << >>, b |-> << >>]

InitTwin ==
    /\ LimiterUnused
    /\ PathUnused
    /\ CredUnused
    /\ ConfigUnused
    /\ LLMUnused
    /\ layout = "tokenfile"
    /\ fs \in { f \in [Files -> {Absent, TypicalConfig, TinyConfig}] :
                  /\ f[".plannet_key"] = Absent
                  /\ f[".plannet_tokens"] = Absent }
    /\ vpc = [p \in Procs |-> "start"]
    /\ vloc = [p \in Procs |-> NoVLoc]
    /\ lastStored = [n \in Names |-> NoSecret]
    /\ lastGet = NoGet
    /\ nstores = 0
    /\ ntampers = 0
    /\ lastTwin = NoTwin

TwinOpen(k) ==
    /\ vpc["g1"] = "start"
    /\ vpc' = [vpc EXCEPT !["g1"] = "ready"]
    /\ fs' = NewTokenStorage("configembedded",
                             NewTokenStorage("tokenfile", fs, k), k)
    /\ lastTwin' = [op |-> "open", name |-> "",
                    a |-> [err |-> OK, token |-> ""],
                    b |-> [err |-> OK, token |-> ""]]
    /\ UNCHANGED <<rlVars, pathVars, credVars, cfgVars, llmVars, layout, vloc,
                   lastStored, lastGet, nstores, ntampers>>

TwinStore(name, token, nonce) ==
    /\ vpc["g1"] = "ready"
    /\ nstores < MaxStores
    /\ nstores' = nstores + 1
    /\ \E a \in {StoreToken("tokenfile", fs, name, token, nonce)} :
       \E b \in {StoreToken("configembedded", a.files, name, token, nonce)} :
          /\ fs' = b.files
          /\ lastTwin' = [op |-> "store", name |-> name,
                          a |-> [err |-> a.err, token |-> ""],
                          b |-> [err |-> b.err, token |-> ""]]
    /\ UNCHANGED <<rlVars, pathVars, credVars, cfgVars, llmVars, layout, vpc, vloc,
                   lastStored, lastGet, ntampers>>

TwinGet(name) ==
    /\ vpc["g1"] = "ready"
    /\ lastTwin' = [op |-> "get", name |-> name,
                    a |-> GetToken("tokenfile", fs, name),
                    b |-> GetToken("configembedded", fs, name)]
    /\ UNCHANGED <<rlVars, pathVars, credVars, cfgVars, llmVars, vaultVars>>

NextTwin ==
    \/ \E k \in KeyBytes : TwinOpen(k)
    \/ \E name \in Names, token \in Secrets, nonce \in Nonces :
          TwinStore(name, token, nonce)
    \/ \E name \in Names : TwinGet(name)

SpecTwin == InitTwin /\ [][NextTwin]_vars

\* the kind of failure an error message stands for
Kind(e) ==
    CASE e = OK -> "ok"
      [] e = ErrTokenNotFound -> "SecretNotFound"
      [] e = ErrDecrypt -> "DecryptError"
      [] e \in {ErrTooShort, "error decoding token"} -> "MalformedRecord"
      [] e \in {"error reading encryption key", "error reading token file",
                "error parsing token file", "error reading config file",
                "error parsing config file"} -> "PersistError"
      [] OTHER -> e

\* C19: every call of a sequence of NewTokenStorage, StoreToken and GetToken
\* calls made on both implementations returns the same outcome in both:
\* success in both or a failure of the same kind, and the same token.
C19_LayoutsEquivalent ==
    lastTwin.op # "none" =>
        /\ Kind(lastTwin.a.err) = Kind(lastTwin.b.err)
        /\ lastTwin.a.token = lastTwin.b.token

----------------------------------------------------------------------------
(* Configuration file of package config, read and written through the file
   operations of the security package *)

\* a *Config: the fields Editor and Headers; Headers is a nil map, an empty
\* map or a map with an Authorization entry
Configs ==
    {[set |-> TRUE, Editor |-> e, Headers |-> h] :
        e \in {"vim"}, h \in {"nil", "empty", "Bearer"}}

\* json.MarshalIndent(config, "", "  "): headers has omitempty
MarshalConfig(c) ==
    "{editor:" \o c.Editor
    \o (IF c.Headers \in {"nil", "empty"} THEN ""
        ELSE ",headers:" \o c.Headers) \o "}"

\* json.Unmarshal(configData, config) into a new Config: a field that is
\* not in the text stays nil
Unmarshal(data) ==
    LET decoded == {c \in Configs : c.Headers # "empty"
                                     /\ MarshalConfig(c) = data}
    IN IF decoded = {}
       THEN [err |-> "error parsing configuration", config |-> NilConfig]
       ELSE [err |-> "nil", config |-> CHOOSE c \in decoded : TRUE]

\* os.Stat(path)
Stat(ftree, path) == EvalSymlinks(ftree, path).err
IsNotExist(err) == err = "not exist"

\* filepath.Join(homeDir, ".plannetrc") and the temporary path of TestConfig
HomeDir == BaseDir
ConfigName == <<Dot, "r">>
DefaultConfigPath == Join(HomeDir, ConfigName)
TempConfigPath == Join(OutsideDir, ConfigName)
ConfigPaths == {DefaultConfigPath, TempConfigPath}

\* config.Load()
Load(ftree, cached, cpath, baseDir) ==
    LET fail(e) == [err |-> e, config |-> NilConfig, global |-> cached]
        parse(r) ==
            IF r.err # "nil" THEN fail("error reading configuration file")
            ELSE LET u == Unmarshal(r.data)
                 IN IF u.err # "nil" THEN fail(u.err)
                    ELSE [err |-> "nil", config |-> u.config,
                          global |-> u.config]
    IN IF cached.set
       THEN [err |-> "nil", config |-> cached, global |-> cached]
       ELSE IF IsNotExist(Stat(ftree, cpath))
       THEN fail("configuration file not found")
       ELSE Bind1(parse, SafeReadFile("security", ftree, baseDir, cpath))

\* config.Save(config)
Save(ftree, cached, cpath, baseDir, c) ==
    LET write(w) ==
            IF w.err # "nil"
            THEN [err |-> "error writing configuration file",
                  tree |-> w.tree, global |-> cached]
            ELSE [err |-> "nil", tree |-> w.tree, global |-> c]
    IN Bind1(write, SafeWriteFile("security", ftree, baseDir, cpath,
                                  MarshalConfig(c), 420))

\* config.IsInitialized()
IsInitialized(ftree, cpath) == ~IsNotExist(Stat(ftree, cpath))

\* home directories: with or without directories named like the parents of
\* the config paths below the home, with or without a config file
ConfigTree(nested, existing) ==
    (<<Slash>> :> DirNode)
    @@ (HomeDir :> DirNode)
    @@ (OutsideDir :> DirNode)
    @@ (IF nested
        THEN (Join(HomeDir, HomeDir) :> DirNode)
             @@ (Join(HomeDir, OutsideDir) :> DirNode)
        ELSE << >>)
    @@ (IF existing = "absent" THEN << >>
        ELSE DefaultConfigPath :> FileNode(existing, 420))

ExistingFiles ==
    {"absent", "invalid json",
     MarshalConfig([set |-> TRUE, Editor |-> "vim", Headers |-> "Bearer"])}

InitConfig ==
    /\ LimiterUnused
    /\ VaultUnused
    /\ CredUnused
    /\ TwinUnused
    /\ LLMUnused
    /\ impl = "security"
    /\ tree \in {ConfigTree(nested, existing) :
                   nested \in BOOLEAN, existing \in ExistingFiles}
    /\ lastOp = NoOp
    /\ nops = 0
    /\ globalConfig = NilConfig
    /\ configPath = DefaultConfigPath
    /\ lastCfg = NoCfg

CfgSave(c) ==
    /\ \E r \in {Save(tree, globalConfig, configPath, HomeDir, c)} :
          /\ tree' = r.tree
          /\ globalConfig' = r.global
          /\ lastCfg' = [op |-> "save", config |-> c, err |-> r.err]
    /\ UNCHANGED <<rlVars, vaultVars, credVars, twinVars, llmVars, impl, lastOp,
                   nops, configPath>>

CfgLoad ==
    /\ \E r \in {Load(tree, globalConfig, configPath, HomeDir)} :
          /\ globalConfig' = r.global
          /\ lastCfg' = [op |-> "load", config |-> r.config, err |-> r.err]
    /\ UNCHANGED <<rlVars, vaultVars, credVars, twinVars, llmVars, pathVars,
                   configPath>>

\* config.SetConfigPath(path)
SetConfigPath(path) ==
    /\ configPath' = path
    /\ globalConfig' = NilConfig
    /\ lastCfg' = [op |-> "setpath", config |-> NilConfig, err |-> "nil"]
    /\ UNCHANGED <<rlVars, vaultVars, credVars, twinVars, llmVars, pathVars>>

\* the process ends and another one starts with the same config path
CfgRestart ==
    /\ globalConfig' = NilConfig
    /\ lastCfg' = [op |-> "restart", config |-> NilConfig, err |-> "nil"]
    /\ UNCHANGED <<rlVars, vaultVars, credVars, twinVars, llmVars, pathVars,
                   configPath>>

NextConfig ==
    \/ \E c \in Configs : CfgSave(c)
    \/ CfgLoad
    \/ \E path \in ConfigPaths : SetConfigPath(path)
    \/ CfgRestart

SpecConfig == InitConfig /\ [][NextConfig]_vars

\* two configurations with the same editor and the same header entries
SameConfig(c1, c2) ==
    /\ c1.set = c2.set
    /\ c1.Editor = c2.Editor
    /\ (IF c1.Headers = "empty" THEN "nil" ELSE c1.Headers)
         = (IF c2.Headers = "empty" THEN "nil" ELSE c2.Headers)

\* C20: when Save(c) has just returned nil, IsInitialized() is true, Load()
\* served from the cached global returns c, and Load() of a process that
\* starts with the same config path and no cached global returns a
\* configuration equal to c.
C20_ConfigPersistence ==
    (lastCfg.op = "save" /\ lastCfg.err = "nil") =>
        /\ IsInitialized(tree, configPath)
        /\ \A cached \in {Load(tree, globalConfig, configPath, HomeDir)} :
              cached.err = "nil" /\ cached.config = lastCfg.config
        /\ \A fresh \in {Load(tree, NilConfig, configPath, HomeDir)} :
              fresh.err = "nil" /\ SameConfig(fresh.config, lastCfg.config)

----------------------------------------------------------------------------
(* Further properties of the rate limiter *)

\* the list stored for a key, empty when the key has none
StoredList(k) == IF k \in DOMAIN requests THEN requests[k] ELSE << >>

\* goroutine p returns from Allow in this step
AllowReturns(p) == pc[p] = "allow_locked" /\ pc'[p] # "allow_locked"

\* C21: every Allow(key) returns true exactly when fewer than limit of the
\* entries stored for the key are newer than now - window, on the first
\* call of a key and after a Reset as on any other call, for every limit
\* NewRateLimiter takes.
C21_AdmissionDecision ==
    [][\A p \in Procs :
          AllowReturns(p) =>
              (log'[Len(log')].ok <=>
                 Len(ValidRequests(StoredList(loc[p].key),
                                   loc[p].now - window)) < limit)]_vars

\* C22: when Allow(key) returns false, the list stored for the key
\* afterwards is the pruned list: the entries stored before that are newer
\* than now - window, nothing added and nothing stale left.
C22_RejectStoresPruned ==
    [][\A p \in Procs :
          (AllowReturns(p) /\ ~log'[Len(log')].ok) =>
              /\ loc[p].key \in DOMAIN requests'
              /\ requests'[loc[p].key] =
                    ValidRequests(StoredList(loc[p].key),
                                  loc[p].now - window)]_vars

----------------------------------------------------------------------------
(* Further properties of the key file and the records *)

\* C23: in every state reached by NewTokenStorage and StoreToken calls,
\* every value in the stored mapping that nobody else changed decrypts
\* under the key the key file holds now.
C23_RecordsDecryptable ==
    \A name \in Names :
        (HasRecord(name) /\ Untampered(name)) =>
            DecryptToken(fs[KeyFile(layout)], StoredValue(name)).err = OK

\* C24: once the key file of security/token.go exists, no NewTokenStorage,
\* StoreToken or GetToken call changes its content, in any interleaving of
\* the goroutines.
C24_KeyGeneratedOnce ==
    [][(layout = "tokenfile" /\ fs[KeyFile(layout)].kind # "absent") =>
          fs'[KeyFile(layout)] = fs[KeyFile(layout)]]_vars

\* errors of StoreToken that come from the key: os.ReadFile(ts.keyFile) and
\* aes.NewCipher(encryptionKey)
KeyErrors == {"error reading encryption key", "error creating cipher"}

\* C25: whenever NewTokenStorage has returned without error, the key file
\* exists and holds exactly 32 raw bytes, and no StoreToken fails with a
\* key-read or cipher-construction error.
C25_OpenGivesUsableKey ==
    (\E p \in Procs : vpc[p] # "start" /\ vpc[p] # "open_create") =>
        /\ fs[KeyFile(layout)].kind = "raw"
        /\ fs[KeyFile(layout)].len = 32
        /\ \A name \in Names, token \in Secrets, nonce \in Nonces :
              StoreTokenRead(layout, fs, name, token, nonce).err
                  \notin KeyErrors

----------------------------------------------------------------------------
(* Further properties of the path sanitizer *)

\* the location a path names once every symbolic link is resolved lies in the
\* sibling directory, whose name starts with the name of the base directory,
\* or below it
InSibling(path) ==
    LET inside(r) ==
            /\ r.err = "nil"
            /\ Len(Segs(SiblingDir)) <= Len(Segs(r.path))
            /\ SubSeq(Segs(r.path), 1, Len(Segs(SiblingDir))) = Segs(SiblingDir)
    IN Bind1(inside, Resolve(tree, path))

\* C26: the containment comparison of SanitizeFilePath is on whole path
\* segments: a path that resolves into a sibling directory whose name merely
\* starts with the name of the base directory, reached through a symbolic
\* link inside the base directory, is rejected as a path traversal.
C26_SegmentPrefix ==
    \A rel \in RelPaths :
        InSibling(Abs(Join(BaseDir, rel))) =>
            SanitizeFilePath(impl, tree, BaseDir, rel).err
                \in {ErrTraversalPattern, ErrOutsideBase}

\* C27: SanitizeFilePath and the Safe* functions report only through their
\* return values: no call of them writes anything to standard output.
C27_NoDirectOutput == lastOp.out = << >>

----------------------------------------------------------------------------
(* Concurrent calls of StoreToken *)

\* C28: two goroutines sharing the storage of security/token.go store under
\* distinct names: once both calls of StoreToken have returned nil, the token
\* file holds a record for each of the two names, and GetToken returns the
\* token stored under it (provided nobody damaged the record or replaced the
\* key it was sealed with).
C28_ConcurrentStoresLoseNothing ==
    (/\ layout = "tokenfile"
     /\ \A p \in Procs : vpc[p] # "store_write"
     /\ \A name \in Names : lastStored[name] # NoSecret)
        => \A name \in Names :
              /\ HasRecord(name)
              /\ (Untampered(name) /\ ~WrongKey(name)) =>
                    GetToken(layout, fs, name)
                        = [err |-> OK, token |-> lastStored[name]]

----------------------------------------------------------------------------
(* The interactive LLM session of package cmd *)

\* security.NewHTTPRateLimiter(5, time.Minute); the clock counts minutes
LLMLimit == 5
LLMWindow == 1
LLMKey == "llm"

\* a new RateLimiter: the limit, the window and an empty map
NewRateLimiter(lim, win) == [limit |-> lim, window |-> win, requests |-> << >>]

\* client.Do(req) of sendLLMRequest, for the client that WrapHTTPClient made
\* of a new http.Client and the limiter rl: the error returned, the limiter
\* afterwards, and the number of requests that reached the network
ClientDo(rl, now, netRes) ==
    LET client == WrapHTTPClient(
                      [Transport |-> NilValue, Timeout |-> 0,
                       CheckRedirect |-> NilValue, Jar |-> NilValue],
                      LLMKey).wrapped
        t == client.Transport
        send(a) ==
            LET res == RoundTrip(t, a.ok, netRes)
            IN [limiter |-> [rl EXCEPT !.requests =
                                IF a.write
                                THEN StoreRequests(rl.requests, t.key, a.list)
                                ELSE rl.requests],
                forwards |-> res.forwards,
                err |-> res.err.kind]
    IN Bind1(send, AllowBody(t.key \in DOMAIN rl.requests,
                             IF t.key \in DOMAIN rl.requests
                             THEN rl.requests[t.key] ELSE << >>,
                             now, rl.limit, rl.window))

\* sendLLMRequest: every call builds its own rate limiter, wraps a new client
\* with it and sends one request through that client
SendLLMRequest(now, netRes) ==
    ClientDo(NewRateLimiter(LLMLimit, LLMWindow), now, netRes)

MaxPrompts == 6

InitLLM ==
    /\ LimiterUnused
    /\ VaultUnused
    /\ PathUnused
    /\ CredUnused
    /\ TwinUnused
    /\ ConfigUnused
    /\ session = NoSession

\* one turn of the loop of runLLMInteractive: a line is read and
\* sendLLMRequest is called with it; whatever it returns, the loop goes on
runLLMInteractive(netRes) ==
    /\ session.nprompts < MaxPrompts
    /\ \E r \in {SendLLMRequest(clock, netRes)} :
          /\ limit' = r.limiter.limit
          /\ window' = r.limiter.window
          /\ requests' = r.limiter.requests
          /\ session' = [sent |-> IF r.forwards > 0
                                  THEN Append(session.sent, clock)
                                  ELSE session.sent,
                         last |-> r.err,
                         nprompts |-> session.nprompts + 1]
    /\ UNCHANGED <<mu, clock, pc, loc, origClient, wrapped, rt, log, admitted,
                   ncalls, wasReset, client0, vaultVars, pathVars, credVars,
                   twinVars, cfgVars>>

NextLLM ==
    \/ Tick
    \/ \E netRes \in NetResults : runLLMInteractive(netRes)

SpecLLM == InitLLM /\ [][NextLLM]_vars

\* the requests forwarded to the LLM endpoint within the minute that ends
\* with the i-th of them
ForwardedInWindow(i) ==
    {j \in 1..i : After(session.sent[j], session.sent[i] - LLMWindow)}

\* C29: during one interactive session at most 5 requests are forwarded to
\* the LLM endpoint within any one minute; a further request within that
\* minute fails with the rate-limit error without reaching the network.
C29_LLMRatePolicy ==
    \A i \in DOMAIN session.sent : Cardinality(ForwardedInWindow(i)) <= LLMLimit

----------------------------------------------------------------------------
(* Size of the state kept per key *)

\* C30: for a limit of at least 1, whatever calls of Allow and Reset were
\* made, the list of instants stored for a key never holds more than limit
\* entries: a rejected call adds nothing to it.
C30_BoundedPerKeyState ==
    limit >= 1 => \A k \in DOMAIN requests : Len(requests[k]) <= limit

\* a key holds as many instants as the limit allows, and a call for it was
\* rejected
C30_Witness ==
    /\ limit >= 1
    /\ \E k \in DOMAIN requests :
          /\ Len(requests[k]) = limit
          /\ \E i \in DOMAIN log : log[i].key = k /\ ~log[i].ok

====
